---- MODULE Spec2Model ----
(***************************************************************************)
(* Model of the result dashboard in src/src/App.jsx: the schema inference  *)
(* (text / numeric / identifier / primary fields), the subject extractor   *)
(* with its credit parser, the aggregates, and the App component's state   *)
(* with the views it derives on every render.                              *)
(*                                                                         *)
(* Strings are TLA+ strings, read character by character with Len and      *)
(* SubSeq.  A JavaScript number is a decimal m / 10^e (or NaN, or an       *)
(* infinity); the binary rounding of doubles is not modelled.              *)
(***************************************************************************)
EXTENDS Integers, Sequences, FiniteSets, TLC

VARIABLES rows, loading, error, search, selectedRow, activeMetricKeys,
          onlyWithMetric, view, calls

vars == <<rows, loading, error, search, selectedRow, activeMetricKeys,
          onlyWithMetric, view, calls>>

----------------------------------------------------------------------------
(* Characters and strings                                                  *)

UpperAlpha == "ABCDEFGHIJKLMNOPQRSTUVWXYZ"
LowerAlpha == "abcdefghijklmnopqrstuvwxyz"
DigitChars == "0123456789"
WhiteSpace == {" ", "\t", "\n"}

Char(s, i) == IF i >= 1 /\ i <= Len(s) THEN SubSeq(s, i, i) ELSE ""

\* the characters of a string
CharsOf(s) == {SubSeq(s, i, i) : i \in 1..Len(s)}

\* the place of a character in an alphabet that has it
IndexIn(alphabet, c) == CHOOSE i \in 1..Len(alphabet) : SubSeq(alphabet, i, i) = c

Digits == CharsOf(DigitChars)
LowerLetters == CharsOf(LowerAlpha)
UpperLetters == CharsOf(UpperAlpha)

DigitValues == [c \in Digits |-> IndexIn(DigitChars, c) - 1]
LowerOf == [c \in UpperLetters |-> SubSeq(LowerAlpha, IndexIn(UpperAlpha, c), IndexIn(UpperAlpha, c))]
UpperOf == [c \in LowerLetters |-> SubSeq(UpperAlpha, IndexIn(LowerAlpha, c), IndexIn(LowerAlpha, c))]

IsDigit(c) == c \in Digits
IsLower(c) == c \in LowerLetters
IsUpper(c) == c \in UpperLetters

DigitVal(c) == DigitValues[c]

LowerChar(c) == IF IsUpper(c) THEN LowerOf[c] ELSE c

UpperChar(c) == IF IsLower(c) THEN UpperOf[c] ELSE c

RECURSIVE LowerFrom(_, _)
LowerFrom(s, i) ==
    IF i > Len(s) THEN "" ELSE LowerChar(SubSeq(s, i, i)) \o LowerFrom(s, i + 1)

\* String.prototype.toLowerCase
ToLowerCase(s) == LowerFrom(s, 1)

\* String.prototype.includes
Includes(s, t) ==
    \E i \in 0..(Len(s) - Len(t)) : SubSeq(s, i + 1, i + Len(t)) = t

\* value.trim() !== ''
TrimNonEmpty(s) == \E i \in 1..Len(s) : SubSeq(s, i, i) \notin WhiteSpace

RECURSIVE SkipWhite(_, _)
SkipWhite(s, i) ==
    IF i <= Len(s) /\ SubSeq(s, i, i) \in WhiteSpace THEN SkipWhite(s, i + 1) ELSE i

RECURSIVE SkipWhiteBack(_, _)
SkipWhiteBack(s, i) ==
    IF i >= 1 /\ SubSeq(s, i, i) \in WhiteSpace THEN SkipWhiteBack(s, i - 1) ELSE i

\* String.prototype.trim
Trim(s) == SubSeq(s, SkipWhite(s, 1), SkipWhiteBack(s, Len(s)))

RECURSIVE JoinFrom(_, _, _)
JoinFrom(seq, sep, i) ==
    IF i > Len(seq) THEN ""
    ELSE IF i = Len(seq) THEN seq[i]
    ELSE seq[i] \o sep \o JoinFrom(seq, sep, i + 1)

\* Array.prototype.join
Join(seq, sep) == JoinFrom(seq, sep, 1)

----------------------------------------------------------------------------
(* Numbers                                                                 *)

NaN == [k |-> "NaN", m |-> 0, e |-> 0]
Inf(sign) == [k |-> "Infinity", m |-> sign, e |-> 0]

\* no number (null) where a number may stand
NullNum == [k |-> "null", m |-> 0, e |-> 0]

\* the finite number m / 10^e, without trailing zeros in m
RECURSIVE Fin(_, _)
Fin(m, e) ==
    IF m = 0 THEN [k |-> "fin", m |-> 0, e |-> 0]
    ELSE IF e > 0 /\ m % 10 = 0 THEN Fin(m \div 10, e - 1)
    ELSE [k |-> "fin", m |-> m, e |-> e]

RECURSIVE Pow10(_)
Pow10(n) == IF n <= 0 THEN 1 ELSE 10 * Pow10(n - 1)

\* Number.isFinite
IsFinite(n) == n.k = "fin"

Abs(x) == IF x < 0 THEN 0 - x ELSE x

MaxE(a, b) == IF a.e >= b.e THEN a.e ELSE b.e

\* the numerator of a finite number over the denominator 10^e
Scaled(n, e) == n.m * Pow10(e - n.e)

NumLess(a, b) == Scaled(a, MaxE(a, b)) < Scaled(b, MaxE(a, b))

NumAdd(a, b) == Fin(Scaled(a, MaxE(a, b)) + Scaled(b, MaxE(a, b)), MaxE(a, b))

\* the index after the longest run of digits that starts at i
RECURSIVE DigitsEnd(_, _)
DigitsEnd(s, i) ==
    IF i <= Len(s) /\ IsDigit(SubSeq(s, i, i)) THEN DigitsEnd(s, i + 1) ELSE i

\* the value of the first n characters of a string of digits
RECURSIVE DigitsValue(_, _)
DigitsValue(s, n) ==
    IF n = 0 THEN 0 ELSE 10 * DigitsValue(s, n - 1) + DigitVal(SubSeq(s, n, n))

\* the value of the run of digits that starts at i, 0 for an empty run
RunValue(s, i) == DigitsValue(SubSeq(s, i, DigitsEnd(s, i) - 1), DigitsEnd(s, i) - i)

\* the exponent part of a decimal literal read at i, 0 when there is none
ExponentAt(s, i) ==
    IF Char(s, i) \notin {"e", "E"} THEN 0
    ELSE IF Char(s, i + 1) = "-" THEN 0 - RunValue(s, i + 2)
    ELSE IF Char(s, i + 1) = "+" THEN RunValue(s, i + 2)
    ELSE RunValue(s, i + 1)

\* the number sign * digits / 10^fracLen * 10^exp, NaN without a digit
MakeNumber(sign, digits, fracLen, exp) ==
    IF digits = "" THEN NaN
    ELSE IF fracLen >= exp
         THEN Fin(sign * DigitsValue(digits, Len(digits)), fracLen - exp)
         ELSE Fin(sign * DigitsValue(digits, Len(digits)) * Pow10(exp - fracLen), 0)

\* a literal whose integer part is s[i1..i2-1] and whose fraction, if any,
\* is s[i2+1..i3-1]
ParseDigits(s, sign, i1, i2, i3) ==
    MakeNumber(sign, SubSeq(s, i1, i2 - 1) \o SubSeq(s, i2 + 1, i3 - 1),
               Len(SubSeq(s, i2 + 1, i3 - 1)), ExponentAt(s, i3))

ParseFraction(s, sign, i1, i2) ==
    ParseDigits(s, sign, i1, i2,
                IF Char(s, i2) = "." THEN DigitsEnd(s, i2 + 1) ELSE i2)

ParseUnsigned(s, sign, i1) ==
    IF i1 + 7 <= Len(s) /\ SubSeq(s, i1, i1 + 7) = "Infinity" THEN Inf(sign)
    ELSE ParseFraction(s, sign, i1, DigitsEnd(s, i1))

ParseSigned(s, i0) ==
    ParseUnsigned(s, IF Char(s, i0) = "-" THEN -1 ELSE 1,
                  IF Char(s, i0) \in {"+", "-"} THEN i0 + 1 ELSE i0)

\* parseFloat of a string: leading white space, a sign, then Infinity or the
\* longest prefix that is a decimal literal
ParseFloat(s) == ParseSigned(s, SkipWhite(s, 1))

\* Number(num.toFixed(2)): two decimals, a half rounded away from zero. The
\* code rounds the binary value of the number: this is its result for the
\* numbers used here, whose halves (as 3.625) are exact in binary.
toFixed2(num) ==
    IF num.e <= 2 THEN num
    ELSE Fin((IF num.m < 0 THEN -1 ELSE 1)
             * ((2 * Abs(num.m) + Pow10(num.e - 2)) \div (2 * Pow10(num.e - 2))), 2)

RECURSIVE Gcd(_, _)
Gcd(a, b) == IF b = 0 THEN a ELSE Gcd(b, a % b)

RECURSIVE StripTwoFive(_)
StripTwoFive(q) ==
    IF q % 2 = 0 THEN StripTwoFive(q \div 2)
    ELSE IF q % 5 = 0 THEN StripTwoFive(q \div 5)
    ELSE q

RECURSIVE DecimalOf(_, _, _)
DecimalOf(p, q, e) ==
    IF Pow10(e) % q = 0 THEN Fin(p * (Pow10(e) \div q), e) ELSE DecimalOf(p, q, e + 1)

\* the fraction p / q in lowest terms: a decimal when it has one
Fraction(p, q) ==
    IF StripTwoFive(q) = 1 THEN DecimalOf(p, q, 0)
    ELSE [k |-> "ratio", p |-> p, q |-> q]

Reduced(p, q, g) == Fraction(p \div g, q \div g)

\* sum / n for a finite sum and n >= 1
Quotient(sum, n) ==
    IF sum.m = 0 THEN Fin(0, 0)
    ELSE Reduced(sum.m, Pow10(sum.e) * n, Gcd(Abs(sum.m), Pow10(sum.e) * n))

RECURSIVE NatToString(_)
NatToString(n) ==
    IF n < 10 THEN Char(DigitChars, n + 1)
    ELSE NatToString(n \div 10) \o Char(DigitChars, (n % 10) + 1)

RECURSIVE PadLeft(_, _)
PadLeft(s, width) == IF Len(s) >= width THEN s ELSE PadLeft("0" \o s, width)

\* String(value) of a number, in plain decimal notation
NumToString(n) ==
    IF n.k = "NaN" THEN "NaN"
    ELSE IF n.k = "Infinity" THEN (IF n.m < 0 THEN "-Infinity" ELSE "Infinity")
    ELSE (IF n.m < 0 THEN "-" ELSE "")
         \o NatToString(Abs(n.m) \div Pow10(n.e))
         \o (IF n.e > 0 THEN "." \o PadLeft(NatToString(Abs(n.m) % Pow10(n.e)), n.e)
             ELSE "")

----------------------------------------------------------------------------
(* Cells, rows and datasets                                                *)

\* a cell of a row: a string, a number, or undefined (the row has no such key)
Str(s) == [t |-> "string", s |-> s, n |-> NaN]
Num(n) == [t |-> "number", s |-> "", n |-> n]
Undefined == [t |-> "undefined", s |-> "", n |-> NaN]

\* no field (null) where a field name may stand
Null == "<null>"

\* a row is the sequence of its entries [k, v], in the order of Object.keys
Keys(row) == [i \in DOMAIN row |-> row[i].k]

\* row[key]
Get(row, key) ==
    IF \E i \in DOMAIN row : row[i].k = key
    THEN row[CHOOSE i \in DOMAIN row : row[i].k = key].v
    ELSE Undefined

\* typeof raw === 'number' ? raw : parseFloat(raw)
ToNum(raw) ==
    IF raw.t = "number" THEN raw.n
    ELSE IF raw.t = "string" THEN ParseFloat(raw.s)
    ELSE NaN

\* raw === '' || raw == null
IsBlank(raw) == raw.t = "undefined" \/ (raw.t = "string" /\ raw.s = "")

\* String(value) of a cell
CellToString(cell) == IF cell.t = "number" THEN NumToString(cell.n) ELSE cell.s

Range(seq) == {seq[i] : i \in DOMAIN seq}

\* seq[0], undefined (here null) for an empty sequence
First(seq) == IF Len(seq) = 0 THEN Null ELSE seq[1]

\* Array.prototype.find over strings: null when no element passes
Find(seq, Test(_)) == First(SelectSeq(seq, Test))

\* x || null, for a string or null x
OrNull(x) == IF x = "" THEN Null ELSE x

----------------------------------------------------------------------------
(* Field detection                                                         *)

IsTextCell(value) == value.t = "string" /\ TrimNonEmpty(value.s)

\* a detector with a flag of its own: it answers once, and with nothing
\* after that
detectTextFieldsOnce(rs) ==
    IF Len(rs) = 0 \/ \E i \in DOMAIN calls : calls[i].fn = "detectTextFields"
    THEN <<>>
    ELSE SelectSeq(Keys(rs[1]), LAMBDA key : IsTextCell(Get(rs[1], key)))

detectTextFields(rs) ==
    IF Len(rs) = 0 THEN <<>>
    ELSE SelectSeq(Keys(rs[1]), LAMBDA key : IsTextCell(Get(rs[1], key)))

\* a classifier that looks at every row, as the extractor does
detectNumericFieldsOfAllRows(rs) ==
    IF Len(rs) = 0 THEN <<>>
    ELSE SelectSeq(Keys(rs[1]),
                   LAMBDA key : \A i \in DOMAIN rs : IsFinite(ToNum(Get(rs[i], key))))

detectNumericFields(rs) ==
    IF Len(rs) = 0 THEN <<>>
    ELSE SelectSeq(Keys(rs[1]), LAMBDA key : IsFinite(ToNum(Get(rs[1], key))))

----------------------------------------------------------------------------
(* Labels                                                                  *)

\* \w of a regular expression
IsWordChar(c) == IsLower(c) \/ IsUpper(c) \/ IsDigit(c) \/ c = "_"

\* .replaceAll('_', ' ')
RECURSIVE ReplaceUnderscores(_, _)
ReplaceUnderscores(s, i) ==
    IF i > Len(s) THEN ""
    ELSE (IF SubSeq(s, i, i) = "_" THEN " " ELSE SubSeq(s, i, i))
         \o ReplaceUnderscores(s, i + 1)

\* .replace(/([a-z])([A-Z])/g, '$1 $2')
RECURSIVE SplitCamel(_, _)
SplitCamel(s, i) ==
    IF i > Len(s) THEN ""
    ELSE SubSeq(s, i, i)
         \o (IF IsLower(SubSeq(s, i, i)) /\ IsUpper(Char(s, i + 1)) THEN " " ELSE "")
         \o SplitCamel(s, i + 1)

\* the whitespace left as it is
CollapseWhiteKept(s, i) == s

\* .replace(/\s+/g, ' ')
RECURSIVE CollapseWhite(_, _)
CollapseWhite(s, i) ==
    IF i > Len(s) THEN ""
    ELSE IF SubSeq(s, i, i) \in WhiteSpace
         THEN " " \o CollapseWhite(s, SkipWhite(s, i))
         ELSE SubSeq(s, i, i) \o CollapseWhite(s, i + 1)

\* .replace(/\b\w/g, (c) => c.toUpperCase())
RECURSIVE TitleCase(_, _)
TitleCase(s, i) ==
    IF i > Len(s) THEN ""
    ELSE (IF IsWordChar(SubSeq(s, i, i)) /\ ~IsWordChar(Char(s, i - 1))
          THEN UpperChar(SubSeq(s, i, i))
          ELSE SubSeq(s, i, i))
         \o TitleCase(s, i + 1)

prettyKey(key) ==
    Trim(TitleCase(CollapseWhite(SplitCamel(ReplaceUnderscores(key, 1), 1), 1), 1))

\* the whole key only
IsCgpaNameExactly(lower) == lower = "cg" \/ lower = "cgpa"

IsCgpaName(lower) ==
    lower = "cg" \/ lower = "cgpa" \/ Includes(lower, " cg") \/ Includes(lower, "cgpa")

metricLabel(key) == IF IsCgpaName(ToLowerCase(key)) THEN "CGPA" ELSE prettyKey(key)

----------------------------------------------------------------------------
(* Subject extraction                                                      *)

IdLikeTokens == <<"roll", "reg", "registration", "enrol", "enrollment", "id">>

AggregateTokens ==
    <<"total", "aggregate", "overall", "gpa", "cgpa", "sgpa", "percentage",
      "percent", "score">>

\* /(a|b|...)/.test(lower)
TestAny(tokens, lower) == \E i \in DOMAIN tokens : Includes(lower, tokens[i])

\* a scan that skips the values that are no numbers
ScanColumnSkipping(rs, key, i, hasNumeric) ==
    \E j \in i..Len(rs) : IsFinite(ToNum(Get(rs[j], key)))

\* the loop over the rows of extractSubjectFields: FALSE at the first value
\* that is neither blank nor a finite number, else whether a number was seen
RECURSIVE ScanColumn(_, _, _, _)
ScanColumn(rs, key, i, hasNumeric) ==
    IF i > Len(rs) THEN hasNumeric
    ELSE IF IsBlank(Get(rs[i], key)) THEN ScanColumn(rs, key, i + 1, hasNumeric)
    ELSE IF ~IsFinite(ToNum(Get(rs[i], key))) THEN FALSE
    ELSE ScanColumn(rs, key, i + 1, TRUE)

AllWhiteFrom(s, i) == \A j \in i..Len(s) : SubSeq(s, j, j) \in WhiteSpace

\* (\.\d+)?\) after the digits key[i+1..j-1]: the capture, "" without a match
ParenTail(key, i, j, k) ==
    IF Char(key, j) = ")" THEN SubSeq(key, i + 1, j - 1)
    ELSE IF Char(key, j) = "." /\ k > j + 1 /\ Char(key, k) = ")"
         THEN SubSeq(key, i + 1, k - 1)
    ELSE ""

ParenDigits(key, i, j) ==
    IF j = i + 1 THEN "" ELSE ParenTail(key, i, j, DigitsEnd(key, j + 1))

\* the text captured by /\((\d+(\.\d+)?)\)/ when it matches at i, else ""
ParenGroupAt(key, i) ==
    IF Char(key, i) # "(" THEN "" ELSE ParenDigits(key, i, DigitsEnd(key, i + 1))

\* (\.\d+)?\s*$ after the digits key[i..j-1]: the capture, "" without a match
TrailingTail(key, i, j, k) ==
    IF Char(key, j) = "." /\ k > j + 1 /\ AllWhiteFrom(key, k)
    THEN SubSeq(key, i, k - 1)
    ELSE IF AllWhiteFrom(key, j) THEN SubSeq(key, i, j - 1)
    ELSE ""

TrailingDigits(key, i, j) ==
    IF j = i THEN "" ELSE TrailingTail(key, i, j, DigitsEnd(key, j + 1))

\* the text captured by /(\d+(\.\d+)?)\s*$/ when it matches at i, else ""
TrailingGroupAt(key, i) == TrailingDigits(key, i, DigitsEnd(key, i))

\* key.match(re): the capture of the leftmost match, "" when there is none
RECURSIVE FirstGroup(_, _, _)
FirstGroup(key, GroupAt(_, _), i) ==
    IF i > Len(key) THEN ""
    ELSE IF GroupAt(key, i) # "" THEN GroupAt(key, i)
    ELSE FirstGroup(key, GroupAt, i + 1)

trailingCredit(trailingMatch) ==
    IF trailingMatch # "" THEN ParseFloat(trailingMatch) ELSE NullNum

\* the trailing number read before the parenthesized one
parenCreditTrailingFirst(key, parenMatch) ==
    IF FirstGroup(key, TrailingGroupAt, 1) # ""
    THEN ParseFloat(FirstGroup(key, TrailingGroupAt, 1))
    ELSE IF parenMatch # "" THEN ParseFloat(parenMatch)
    ELSE NullNum

parenCredit(key, parenMatch) ==
    IF parenMatch # "" THEN ParseFloat(parenMatch)
    ELSE trailingCredit(FirstGroup(key, TrailingGroupAt, 1))

\* the credit extractSubjectFields reads from a header
parseCredit(key) == parenCredit(key, FirstGroup(key, ParenGroupAt, 1))

\* the name tests without the aggregate names
IsSkippedNameNoAggregate(textSet, lower) ==
    lower \in textSet \/ TestAny(IdLikeTokens, lower)

\* the name tests of extractSubjectFields
IsSkippedName(textSet, lower) ==
    lower \in textSet \/ TestAny(IdLikeTokens, lower) \/ TestAny(AggregateTokens, lower)

\* whether the callback of keys.map in extractSubjectFields keeps the key
IsSubject(rs, textSet, key) ==
    ~IsSkippedName(textSet, ToLowerCase(key)) /\ ScanColumn(rs, key, 1, FALSE)

Descriptor(key) == [key |-> key, label |-> prettyKey(key), credit |-> parseCredit(key)]

Descriptors(keys) == [i \in DOMAIN keys |-> Descriptor(keys[i])]

LowerSet(names) == {ToLowerCase(names[i]) : i \in DOMAIN names}

extractSubjectFields(rs, textFields) ==
    IF Len(rs) = 0 THEN <<>>
    ELSE Descriptors(SelectSeq(Keys(rs[1]),
                               LAMBDA key : IsSubject(rs, LowerSet(textFields), key)))

----------------------------------------------------------------------------
(* Aggregates                                                              *)

\* rows.map(coerce).filter(v => v !== null): the finite numbers of a column
RECURSIVE FiniteValues(_, _, _)
FiniteValues(rs, field, i) ==
    IF i > Len(rs) THEN <<>>
    ELSE IF IsFinite(ToNum(Get(rs[i], field)))
         THEN <<ToNum(Get(rs[i], field))>> \o FiniteValues(rs, field, i + 1)
    ELSE FiniteValues(rs, field, i + 1)

RECURSIVE SumOf(_, _)
SumOf(values, n) ==
    IF n = 0 THEN Fin(0, 0) ELSE NumAdd(SumOf(values, n - 1), values[n])

Larger(a, b) == IF NumLess(a, b) THEN b ELSE a
Smaller(a, b) == IF NumLess(b, a) THEN b ELSE a

\* Math.max(...values) of n >= 1 finite numbers
RECURSIVE MaxOf(_, _)
MaxOf(values, n) ==
    IF n = 1 THEN values[1] ELSE Larger(MaxOf(values, n - 1), values[n])

\* Math.min(...values) of n >= 1 finite numbers
RECURSIVE MinOf(_, _)
MinOf(values, n) ==
    IF n = 1 THEN values[1] ELSE Smaller(MinOf(values, n - 1), values[n])

\* the scores 0 for the scores null
NoStatsOfZero(total) ==
    [totalStudents |-> total, avgScore |-> Fin(0, 0), maxScore |-> Fin(0, 0),
     minScore |-> Fin(0, 0)]

NoStats(total) ==
    [totalStudents |-> total, avgScore |-> NullNum, maxScore |-> NullNum,
     minScore |-> NullNum]

\* the mean taken over all rows, not over the finite values
StatsOfAllRows(totalStudents, numericValues) ==
    IF Len(numericValues) = 0 THEN NoStats(totalStudents)
    ELSE [totalStudents |-> totalStudents,
          avgScore |-> Quotient(SumOf(numericValues, Len(numericValues)), totalStudents),
          maxScore |-> MaxOf(numericValues, Len(numericValues)),
          minScore |-> MinOf(numericValues, Len(numericValues))]

StatsOf(totalStudents, numericValues) ==
    IF Len(numericValues) = 0 THEN NoStats(totalStudents)
    ELSE [totalStudents |-> totalStudents,
          avgScore |-> Quotient(SumOf(numericValues, Len(numericValues)),
                                Len(numericValues)),
          maxScore |-> MaxOf(numericValues, Len(numericValues)),
          minScore |-> MinOf(numericValues, Len(numericValues))]

\* the summary memo of App
summary(rs, primaryNumeric) ==
    IF Len(rs) = 0 \/ primaryNumeric = Null \/ primaryNumeric = ""
    THEN NoStats(Len(rs))
    ELSE StatsOf(Len(rs), FiniteValues(rs, primaryNumeric, 1))

\* an object as the function from its keys to their values
PutKey(obj, key, value) ==
    [x \in (DOMAIN obj) \cup {key} |-> IF x = key THEN value ELSE obj[x]]

\* bin[metricKey] = 1
IncrementToOne(bin, metricKey) == PutKey(bin, metricKey, Fin(1, 0))

\* bin[metricKey] = (bin[metricKey] || 0) + 1
Increment(bin, metricKey) ==
    PutKey(bin, metricKey,
           IF metricKey \in DOMAIN bin /\ bin[metricKey].m # 0
           THEN NumAdd(bin[metricKey], Fin(1, 0))
           ELSE Fin(1, 0))

BinIndex(bins, rounded) ==
    IF \E i \in DOMAIN bins : bins[i].binKey = rounded
    THEN CHOOSE i \in DOMAIN bins : bins[i].binKey = rounded
    ELSE 0

\* bins is the sequence of [binKey, bin] in the order the Map got its keys
CountInBin(bins, metricKey, rounded, i) ==
    IF i = 0
    THEN Append(bins, [binKey |-> rounded,
                       bin |-> Increment([x \in {"gpa"} |-> rounded], metricKey)])
    ELSE [bins EXCEPT ![i].bin = Increment(bins[i].bin, metricKey)]

CountValue(bins, metricKey, num) ==
    IF ~IsFinite(num) THEN bins
    ELSE CountInBin(bins, metricKey, toFixed2(num), BinIndex(bins, toFixed2(num)))

RECURSIVE CountRows(_, _, _, _)
CountRows(bins, rs, metricKey, i) ==
    IF i > Len(rs) THEN bins
    ELSE CountRows(CountValue(bins, metricKey, ToNum(Get(rs[i], metricKey))),
                   rs, metricKey, i + 1)

RECURSIVE CountMetrics(_, _, _, _)
CountMetrics(bins, rs, metrics, m) ==
    IF m > Len(metrics) THEN bins
    ELSE CountMetrics(CountRows(bins, rs, metrics[m], 1), rs, metrics, m + 1)

\* Array.prototype.sort((a, b) => a.gpa - b.gpa): stable, ascending
RECURSIVE InsertBin(_, _)
InsertBin(sorted, bin) ==
    IF sorted = <<>> THEN <<bin>>
    ELSE IF NumLess(bin.gpa, sorted[Len(sorted)].gpa)
         THEN Append(InsertBin(SubSeq(sorted, 1, Len(sorted) - 1), bin),
                     sorted[Len(sorted)])
         ELSE Append(sorted, bin)

RECURSIVE SortBins(_, _)
SortBins(bins, n) ==
    IF n = 0 THEN <<>> ELSE InsertBin(SortBins(bins, n - 1), bins[n].bin)

SortedBins(bins) == SortBins(bins, Len(bins))

buildGpaCountData(rs, metrics) ==
    IF Len(rs) = 0 \/ Len(metrics) = 0 THEN <<>>
    ELSE SortedBins(CountMetrics(<<>>, rs, metrics, 1))

\* Math.round of num / den, den > 0: a half goes up
MathRound(num, den) == (2 * num + den) \div (2 * den)

\* Math.round(min + i * step) for step = (max - min) / bins, the numbers
\* taken over 10^e
RoundedEdge(min, max, bins, i, e) ==
    MathRound(Scaled(min, e) * bins + i * (Scaled(max, e) - Scaled(min, e)),
              bins * Pow10(e))

\* i === bins - 1 ? max : min + (i + 1) * step, rounded
RoundedEnd(min, max, bins, i, e) ==
    IF i = bins - 1 THEN MathRound(Scaled(max, e), Pow10(e))
    ELSE RoundedEdge(min, max, bins, i + 1, e)

\* String(n) of an integer
IntToString(n) == NumToString(Fin(n, 0))

\* the label of bin i, from 0; its dash is written "-" here
RangeLabel(min, max, bins, i) ==
    IntToString(RoundedEdge(min, max, bins, i, MaxE(min, max)))
    \o " - " \o IntToString(RoundedEnd(min, max, bins, i, MaxE(min, max)))

\* one bin more than asked for
EmptyBinsAndOne(min, max, bins) ==
    [i \in 1..(bins + 1) |-> [range |-> RangeLabel(min, max, bins, i - 1), count |-> 0]]

\* Array.from({ length: bins }, ...): the bins before the values are counted
EmptyBins(min, max, bins) ==
    [i \in 1..bins |-> [range |-> RangeLabel(min, max, bins, i - 1), count |-> 0]]

\* Math.floor(((v - min) / (max - min)) * bins), the numbers taken over 10^e
FloorIndex(v, min, max, bins, e) ==
    ((Scaled(v, e) - Scaled(min, e)) * bins) \div (Scaled(max, e) - Scaled(min, e))

\* an index past the last bin brought to the first one
ClampedToFirst(idx, bins) == IF idx >= bins \/ idx < 0 THEN 0 ELSE idx

\* if (idx >= bins) idx = bins - 1; if (idx < 0) idx = 0
Clamped(idx, bins) == IF idx >= bins THEN bins - 1 ELSE IF idx < 0 THEN 0 ELSE idx

MostDecimals(v, min, max) == IF v.e >= MaxE(min, max) THEN v.e ELSE MaxE(min, max)

\* the index of the bin that counts v, from 0
BinOf(v, min, max, bins) ==
    Clamped(FloorIndex(v, min, max, bins, MostDecimals(v, min, max)), bins)

\* a count set to one, not raised by one
CountedAtOnce(data, idx) == [data EXCEPT ![idx + 1].count = 1]

\* data[idx].count += 1
CountedAt(data, idx) == [data EXCEPT ![idx + 1].count = @ + 1]

\* values.forEach(...) from the n-th value on
RECURSIVE CountValues(_, _, _, _, _, _)
CountValues(data, values, min, max, bins, n) ==
    IF n > Len(values) THEN data
    ELSE CountValues(CountedAt(data, BinOf(values[n], min, max, bins)),
                     values, min, max, bins, n + 1)

HistogramBetween(values, min, max, bins) ==
    IF min = max THEN <<>>
    ELSE CountValues(EmptyBins(min, max, bins), values, min, max, bins, 1)

HistogramOf(values, bins) ==
    IF Len(values) = 0 THEN <<>>
    ELSE HistogramBetween(values, MinOf(values, Len(values)), MaxOf(values, Len(values)),
                          bins)

\* buildHistogramData, for bins >= 1
buildHistogramData(rs, field, bins) ==
    IF Len(rs) = 0 \/ field = Null \/ field = "" THEN <<>>
    ELSE HistogramOf(FiniteValues(rs, field, 1), bins)

----------------------------------------------------------------------------
(* The memos of App                                                        *)

\* the tokens of primaryTextField with "student" ahead of "name"
NameTokensStudentFirst == <<"student", "name", "candidate">>

NameTokens == <<"name", "student", "candidate">>

IdTokens == <<"roll", "reg", "registration", "enrol", "enrollment", "admission", "id">>

PreferredTokens ==
    <<"cg", "cgpa", "gpa", "total", "aggregate", "overall", "sgpa", "percentage",
      "percent", "score">>

\* textFields.find(f => f.toLowerCase().includes(found)) || textFields[0] || null
TextFieldWith(textFields, found) ==
    IF found = Null THEN OrNull(First(textFields))
    ELSE IF \E i \in DOMAIN textFields : Includes(ToLowerCase(textFields[i]), found)
         THEN Find(textFields, LAMBDA f : Includes(ToLowerCase(f), found))
    ELSE OrNull(First(textFields))

FoundIn(joined, candidates) == Find(candidates, LAMBDA c : Includes(joined, c))

primaryTextField(textFields) ==
    TextFieldWith(textFields, FoundIn(ToLowerCase(Join(textFields, " ")), NameTokens))

Lowered(names) == [i \in DOMAIN names |-> ToLowerCase(names[i])]

MatchedCandidate(lowerKeys, candidates) ==
    Find(candidates, LAMBDA cand : \E i \in DOMAIN lowerKeys : Includes(lowerKeys[i], cand))

KeyWith(orderedKeys, matchedCandidate) ==
    IF matchedCandidate = Null THEN Null
    ELSE OrNull(Find(orderedKeys, LAMBDA k : Includes(ToLowerCase(k), matchedCandidate)))

IdAmong(orderedKeys) ==
    KeyWith(orderedKeys, MatchedCandidate(Lowered(orderedKeys), IdTokens))

\* the first-row keys as they stand, text fields not moved to the front
OrderedKeysAsListed(keys, textFields) == keys

\* [...textFields, ...keys.filter((k) => !textFields.includes(k))]
OrderedKeys(keys, textFields) ==
    textFields \o SelectSeq(keys, LAMBDA k : k \notin Range(textFields))

\* idField with the keys of the last row as the sample
idFieldOfLastRow(rs, textFields) ==
    IdAmong(OrderedKeys(IF Len(rs) = 0 THEN <<>> ELSE Keys(rs[Len(rs)]), textFields))

idField(rs, textFields) ==
    IdAmong(OrderedKeys(IF Len(rs) = 0 THEN <<>> ELSE Keys(rs[1]), textFields))

IsPreferred(f) == TestAny(PreferredTokens, ToLowerCase(f))

\* primaryNumericField without the test of the names
primaryNumericFieldUnnamed(numericFields, subjectFields) ==
    IF Len(numericFields) = 0 THEN Null
    ELSE IF Len(subjectFields) > 0 THEN subjectFields[1].key
    ELSE numericFields[1]

\* primaryNumericField without the fallback to the first subject
primaryNumericFieldNoSubject(numericFields, subjectFields) ==
    IF Len(numericFields) = 0 THEN Null
    ELSE IF \E i \in DOMAIN numericFields : IsPreferred(numericFields[i])
         THEN Find(numericFields, IsPreferred)
    ELSE numericFields[1]

\* primaryNumericField with the last subject for the first
primaryNumericFieldLastSubject(numericFields, subjectFields) ==
    IF Len(numericFields) = 0 THEN Null
    ELSE IF \E i \in DOMAIN numericFields : IsPreferred(numericFields[i])
         THEN Find(numericFields, IsPreferred)
    ELSE IF Len(subjectFields) > 0 THEN subjectFields[Len(subjectFields)].key
    ELSE numericFields[1]

primaryNumericField(numericFields, subjectFields) ==
    IF Len(numericFields) = 0 THEN Null
    ELSE IF \E i \in DOMAIN numericFields : IsPreferred(numericFields[i])
         THEN Find(numericFields, IsPreferred)
    ELSE IF Len(subjectFields) > 0 THEN subjectFields[1].key
    ELSE numericFields[1]

\* primaryNumericField || subjectFields[0]?.key || null
defaultMetricKey(primaryNumeric, subjectFields) ==
    IF primaryNumeric # Null /\ primaryNumeric # "" THEN primaryNumeric
    ELSE IF Len(subjectFields) > 0 THEN OrNull(subjectFields[1].key)
    ELSE Null

chartMetricKeys(active, defaultKey) ==
    IF Len(active) > 0 THEN active
    ELSE IF defaultKey # Null THEN <<defaultKey>>
    ELSE <<>>

filterMetricKey(chartKeys) == OrNull(First(chartKeys))

isIdLike(key) == TestAny(IdLikeTokens, ToLowerCase(key))

Option(key, label) == [key |-> key, label |-> label]

SubjectOptions(subjects) ==
    [i \in DOMAIN subjects |-> Option(subjects[i].key, subjects[i].label)]

metricOptions(primaryNumeric, subjectFields) ==
    IF primaryNumeric # Null /\ primaryNumeric # "" /\ ~isIdLike(primaryNumeric)
    THEN <<Option(primaryNumeric, metricLabel(primaryNumeric))>>
         \o SubjectOptions(SelectSeq(subjectFields,
                LAMBDA sub : sub.key # primaryNumeric /\ ~isIdLike(sub.key)))
    ELSE SubjectOptions(SelectSeq(subjectFields, LAMBDA sub : ~isIdLike(sub.key)))

\* the row has the metric: a value that is not blank and is a finite number
HasMetric(row, key) == ~IsBlank(Get(row, key)) /\ IsFinite(ToNum(Get(row, key)))

\* some value of the row, as a string in lower case, contains q
RowMatches(row, q) ==
    \E j \in DOMAIN row : Includes(ToLowerCase(CellToString(row[j].v)), q)

\* the rows that match, the last first
SearchedBackwards(rs, baseRows, searchText) ==
    IF ~TrimNonEmpty(searchText) THEN baseRows
    ELSE [n \in 1..Len(SelectSeq(baseRows, LAMBDA i : RowMatches(rs[i], ToLowerCase(searchText)))) |->
             SelectSeq(baseRows, LAMBDA i : RowMatches(rs[i], ToLowerCase(searchText)))[
                 Len(SelectSeq(baseRows, LAMBDA i : RowMatches(rs[i], ToLowerCase(searchText)))) + 1 - n]]

Searched(rs, baseRows, searchText) ==
    IF ~TrimNonEmpty(searchText) THEN baseRows
    ELSE SelectSeq(baseRows, LAMBDA i : RowMatches(rs[i], ToLowerCase(searchText)))

\* the filteredRows memo of App, as the indexes into rows of the rows kept
filteredRows(rs, searchText, onlyMetric, filterKey) ==
    Searched(rs,
             IF onlyMetric /\ filterKey # Null
             THEN SelectSeq([i \in 1..Len(rs) |-> i], LAMBDA i : HasMetric(rs[i], filterKey))
             ELSE [i \in 1..Len(rs) |-> i],
             searchText)

RowsAt(rs, indexes) == [i \in DOMAIN indexes |-> rs[indexes[i]]]

\* a render whose summary is taken from the filtered rows
ShownOfFiltered(rs, textFields, numericFields, subjectFields, primaryNumeric, chartKeys, filtered) ==
    [textFields |-> textFields,
     numericFields |-> numericFields,
     subjectFields |-> subjectFields,
     primaryTextField |-> primaryTextField(textFields),
     idField |-> idField(rs, textFields),
     primaryNumericField |-> primaryNumeric,
     defaultMetricKey |-> defaultMetricKey(primaryNumeric, subjectFields),
     chartMetricKeys |-> chartKeys,
     filterMetricKey |-> filterMetricKey(chartKeys),
     metricOptions |-> metricOptions(primaryNumeric, subjectFields),
     filteredRows |-> filtered,
     chartData |-> buildGpaCountData(RowsAt(rs, filtered), chartKeys),
     summary |-> summary(RowsAt(rs, filtered), primaryNumeric)]

\* what one render of App shows, from its state and the memos it depends on
Shown(rs, textFields, numericFields, subjectFields, primaryNumeric, chartKeys, filtered) ==
    [textFields |-> textFields,
     numericFields |-> numericFields,
     subjectFields |-> subjectFields,
     primaryTextField |-> primaryTextField(textFields),
     idField |-> idField(rs, textFields),
     primaryNumericField |-> primaryNumeric,
     defaultMetricKey |-> defaultMetricKey(primaryNumeric, subjectFields),
     chartMetricKeys |-> chartKeys,
     filterMetricKey |-> filterMetricKey(chartKeys),
     metricOptions |-> metricOptions(primaryNumeric, subjectFields),
     filteredRows |-> filtered,
     chartData |-> buildGpaCountData(RowsAt(rs, filtered), chartKeys),
     summary |-> summary(rs, primaryNumeric)]

Filtered(rs, searchText, onlyMetric, tf, nf, sf, pn, chartKeys) ==
    Shown(rs, tf, nf, sf, pn, chartKeys,
          filteredRows(rs, searchText, onlyMetric, filterMetricKey(chartKeys)))

Charted(rs, searchText, active, onlyMetric, tf, nf, sf, pn) ==
    Filtered(rs, searchText, onlyMetric, tf, nf, sf, pn,
             chartMetricKeys(active, defaultMetricKey(pn, sf)))

Extracted(rs, searchText, active, onlyMetric, tf, nf, sf) ==
    Charted(rs, searchText, active, onlyMetric, tf, nf, sf, primaryNumericField(nf, sf))

Detected(rs, searchText, active, onlyMetric, tf, nf) ==
    Extracted(rs, searchText, active, onlyMetric, tf, nf, extractSubjectFields(rs, tf))

\* everything one render of App derives from its state
Render(rs, searchText, active, onlyMetric) ==
    Detected(rs, searchText, active, onlyMetric,
             detectTextFields(rs), detectNumericFields(rs))

----------------------------------------------------------------------------
(* Datasets the loader can hand to App                                     *)

MaxFields == 2
MaxRows == 3
MaxKeyLen == 5

Whole(n) == Num(Fin(n, 0))

\* a row without the entries whose cell is undefined
Present(row) == SelectSeq(row, LAMBDA en : en.v # Undefined)

\* the dataset of the columns cols[j] = <<header, cells>>, each of n cells
Table(cols, n) ==
    [i \in 1..n |-> Present([j \in DOMAIN cols |-> [k |-> cols[j][1], v |-> cols[j][2][i]]])]

WideHeaders ==
    {"Name", "Student ID", "Roll", "Enrollment", "Admission", "CGPA", "Total",
     "Math", "Lab 2"}

\* columns of two cells: text, numbers, a number then text, blank then a
\* number, numbers written as text
WideColumns ==
    {<<Str("Al"), Str("Bo")>>,
     <<Num(Fin(367, 2)), Whole(4)>>,
     <<Whole(80), Str("N/A")>>,
     <<Str(""), Whole(70)>>,
     <<Str("90"), Str("75.5")>>}

DistinctHeaders(cols) == \A a, b \in DOMAIN cols : a # b => cols[a][1] # cols[b][1]

DeepHeaders == {"Math", "Lab (0)"}

DeepCells == {Str(""), Str("Al"), Str("N/A"), Str("80"), Whole(65)}

\* nothing, or a text column whose name differs from "Math" in case only
DeepContexts(n) == {<<>>, <<<<"math", [i \in 1..n |-> Str("x")]>>>>}

CreditAlphabet == {"M", "(", ")", "3", "0", ".", " "}

NamedHeaders ==
    {"Physics (3.0) Lab 2", "Chemistry 3", "Math 0", "Lab (0)", "C++ (3.0)",
     "Physics_1", "Total"}

\* one numeric column under the header
HeaderTable(header) == <<<<[k |-> header, v |-> Whole(80)]>>>>

----------------------------------------------------------------------------
(* The App component                                                       *)

Init ==
    /\ rows = <<>>
    /\ loading = TRUE
    /\ error = Null
    /\ search = ""
    /\ selectedRow = 0
    /\ activeMetricKeys = <<>>
    /\ onlyWithMetric = FALSE
    /\ view = Render(<<>>, "", <<>>, FALSE)
    /\ calls = <<>>

TargetReg == "2024331082"

IsTarget(row, idF) ==
    /\ idF # Null
    /\ Get(row, idF) # Undefined
    /\ ToLowerCase(Trim(CellToString(Get(row, idF)))) = ToLowerCase(TargetReg)

\* initial || rows[0] of the effect that selects a row: the first row whose
\* identifier is the target registration number, else the first row
\* rows[0] whatever the identifiers are
initialRowFirst(rs, idF) == 1

initialRow(rs, idF) ==
    IF \E i \in 1..Len(rs) : IsTarget(rs[i], idF)
    THEN CHOOSE i \in 1..Len(rs) :
             IsTarget(rs[i], idF) /\ \A j \in 1..(i - 1) : ~IsTarget(rs[j], idF)
    ELSE 1

\* load() of useResults succeeds with the rows of the sheet, and the effect
\* of the render that follows selects the initial row
Load(data) ==
    /\ loading
    /\ rows' = data
    /\ loading' = FALSE
    /\ view' = Render(data, search, activeMetricKeys, onlyWithMetric)
    /\ selectedRow' = IF Len(data) = 0 THEN 0 ELSE initialRow(data, view'.idField)
    /\ UNCHANGED <<error, search, activeMetricKeys, onlyWithMetric, calls>>

\* the sheet has no rows
LoadEmpty == loading /\ Load(<<>>)

\* up to MaxFields columns of two cells, under distinct headers
LoadWide ==
    /\ loading
    /\ \E n \in 1..MaxFields : \E cols \in [1..n -> WideHeaders \X WideColumns] :
           DistinctHeaders(cols) /\ Load(Table(cols, 2))

\* one column of up to MaxRows cells, alone or after a text column
LoadDeep ==
    /\ loading
    /\ \E n \in 1..MaxRows : \E cells \in [1..n -> DeepCells] :
           \E h \in DeepHeaders, ctx \in DeepContexts(n) :
               Load(Table(ctx \o <<<<h, cells>>>>, n))

\* datasets that differ in the names and the kinds of their fields
NextFields == LoadEmpty \/ LoadWide

SpecFields == Init /\ [][NextFields]_vars

\* those, and datasets that differ in the values of one column
NextData == LoadEmpty \/ LoadWide \/ LoadDeep

SpecData == Init /\ [][NextData]_vars

\* one numeric column under a header of up to MaxKeyLen characters
LoadSpelled ==
    /\ loading
    /\ \E n \in 1..MaxKeyLen : \E spelling \in [1..n -> CreditAlphabet] :
           Load(HeaderTable(Join(spelling, "")))

LoadNamed == loading /\ \E h \in NamedHeaders : Load(HeaderTable(h))

NextHeader == LoadSpelled \/ LoadNamed

SpecHeader == Init /\ [][NextHeader]_vars

----------------------------------------------------------------------------
(* The events of App                                                       *)

\* the dataset of the end-to-end scenario, as it is written
Scenario ==
    <<<<[k |-> "Name", v |-> Str("Alice")], [k |-> "Reg", v |-> Str("2024001")],
        [k |-> "CGPA", v |-> Num(Fin(367, 2))], [k |-> "Physics_1", v |-> Whole(78)],
        [k |-> "Physics_1_Credit", v |-> Str("(3)")]>>,
      <<[k |-> "Name", v |-> Str("Bob")], [k |-> "Reg", v |-> Str("2024002")],
        [k |-> "CGPA", v |-> Num(Fin(367, 2))], [k |-> "Physics_1", v |-> Whole(65)]>>>>

\* the scenario as the rows of a sheet: the blank cell of the second row is
\* '' (defval at line 28)
ScenarioSheet ==
    <<Scenario[1], Append(Scenario[2], [k |-> "Physics_1_Credit", v |-> Str("")])>>

\* three students, the second with the target registration number and the
\* third without a CGPA
Batch ==
    Table(<<<<"Name", <<Str("Al"), Str("Bo"), Str("Cy")>>>>,
            <<"Reg No", <<Str("2024331001"), Str(" 2024331082 "), Str("2024331090")>>>>,
            <<"CGPA", <<Num(Fin(35, 1)), Num(Fin(3625, 3)), Str("")>>>>,
            <<"Math 3", <<Whole(80), Whole(65), Whole(80)>>>>>>, 3)

\* marks only: no text, no identifier, no preferred name
Marks ==
    Table(<<<<"Math", <<Whole(80), Str("")>>>>, <<"Lab (1.5)", <<Whole(7), Whole(9)>>>>>>, 2)

AppInputs == {<<>>, ScenarioSheet, Batch, Marks}

SearchTexts == {"", " ", "bo", "80", "2024"}

SearchResultLimit == 6

LoadSheet == loading /\ \E data \in AppInputs : Load(data)

\* load() of useResults fails
LoadFailed ==
    /\ loading
    /\ loading' = FALSE
    /\ error' = "Failed to load results file."
    /\ UNCHANGED <<rows, search, selectedRow, activeMetricKeys, onlyWithMetric, view, calls>>

\* onChange of the search box
SetSearch(text) ==
    /\ search' = text
    /\ view' = Render(rows, text, activeMetricKeys, onlyWithMetric)
    /\ UNCHANGED <<rows, loading, error, selectedRow, activeMetricKeys, onlyWithMetric, calls>>

\* the Clear button, shown while the search box has text
ClearSearch == search # "" /\ SetSearch("")

\* handleRowClick from a row of the table
RowClick(i) ==
    /\ ~loading /\ error = Null /\ Len(rows) > 0
    /\ i \in Range(view.filteredRows)
    /\ selectedRow' = i
    /\ UNCHANGED <<rows, loading, error, search, activeMetricKeys, onlyWithMetric, view, calls>>

\* handleSearchResultClick from one of the first results under the search box
SearchResultClick(n) ==
    /\ TrimNonEmpty(search)
    /\ n <= Len(view.filteredRows) /\ n <= SearchResultLimit
    /\ selectedRow' = view.filteredRows[n]
    /\ search' = ""
    /\ view' = Render(rows, "", activeMetricKeys, onlyWithMetric)
    /\ UNCHANGED <<rows, loading, error, activeMetricKeys, onlyWithMetric, calls>>

\* [...current, key]
ToggledOn(current, key) == Append(current, key)

\* current.includes(key) ? current.filter((k) => k !== key) : [...current, key]
Toggled(current, key) ==
    IF key \in Range(current) THEN SelectSeq(current, LAMBDA k : k # key)
    ELSE Append(current, key)

\* onClick of a metric option
ToggleMetric(n) ==
    /\ n <= Len(view.metricOptions)
    /\ activeMetricKeys' = Toggled(activeMetricKeys, view.metricOptions[n].key)
    /\ view' = Render(rows, search, activeMetricKeys', onlyWithMetric)
    /\ UNCHANGED <<rows, loading, error, search, selectedRow, onlyWithMetric, calls>>

\* onChange of the "Filter list by this metric" checkbox
SetOnlyWithMetric(checked) ==
    /\ onlyWithMetric' = checked
    /\ view' = Render(rows, search, activeMetricKeys, checked)
    /\ UNCHANGED <<rows, loading, error, search, selectedRow, activeMetricKeys, calls>>

Next ==
    \/ LoadSheet
    \/ LoadFailed
    \/ \E text \in SearchTexts : SetSearch(text)
    \/ ClearSearch
    \/ \E i \in 1..Len(rows) : RowClick(i)
    \/ \E n \in 1..SearchResultLimit : SearchResultClick(n)
    \/ \E n \in 1..Len(view.metricOptions) : ToggleMetric(n)
    \/ \E checked \in BOOLEAN : SetOnlyWithMetric(checked)

Spec == Init /\ [][Next]_vars

----------------------------------------------------------------------------
(* Calls of the functions of the module                                    *)

MaxBins == 3

MaxCalls == 2

\* bins = 8
DefaultBins == 8

\* what a call was given, the dataset and the other arguments, and what it
\* returned
Call(fn, data, arg, out) == [fn |-> fn, data |-> data, arg |-> arg, out |-> out]

\* a call of buildHistogramData on the rows
Histogram(field, bins) ==
    /\ calls' = Append(calls, Call("buildHistogramData", rows, <<field, bins>>,
                                   buildHistogramData(rows, field, bins)))
    /\ UNCHANGED <<rows, loading, error, search, selectedRow, activeMetricKeys,
                   onlyWithMetric, view>>

HistogramCells ==
    {Num(Fin(-15, 1)), Whole(0), Whole(1), Num(Fin(25, 1)), Whole(10), Str("7"),
     Str(""), Str("N/A")}

HistogramFields == {"Marks", "Grade", Null}

\* one column "Marks" of up to MaxRows cells
LoadMarks ==
    /\ loading
    /\ \E n \in 1..MaxRows : \E cells \in [1..n -> HistogramCells] :
           Load(Table(<<<<"Marks", cells>>>>, n))

\* one call of buildHistogramData, of a field the rows have or lack, or of
\* none, with few bins or with the default
HistogramOnce ==
    /\ ~loading /\ calls = <<>>
    /\ \E field \in HistogramFields, bins \in (1..MaxBins) \cup {DefaultBins} :
           Histogram(field, bins)

NextHistogram == LoadEmpty \/ LoadMarks \/ HistogramOnce

SpecHistogram == Init /\ [][NextHistogram]_vars

\* a call of buildGpaCountData on the rows
\* the classification of a dataset that need not come from the sheet: the
\* detectors, the extractor and the selections of the primary fields, as one
\* render computes them without search and without chosen metrics
Classify(data) ==
    /\ calls' = Append(calls, Call("classify", data, <<>>,
                                 Render(data, "", <<>>, FALSE)))
    /\ UNCHANGED <<rows, loading, error, search, selectedRow, activeMetricKeys,
                   onlyWithMetric, view>>

LateHeaders == <<{"Name", "Math"}, {"Roll", "CGPA"}>>

LateCells == {Str("Al"), Whole(80), Undefined}

\* two columns of up to MaxRows cells, any of them absent from its row, the
\* first row included, and no row without cells.  The rows of the sheet all
\* have the keys of the header (defval at line 28); rows that differ in
\* their keys are datasets the functions accept all the same.
ClassifyOnce ==
    /\ calls = <<>>
    /\ \E n \in 1..MaxRows : \E a, b \in [1..n -> LateCells] :
           /\ \A i \in 1..n : a[i] # Undefined \/ b[i] # Undefined
           /\ \E g \in LateHeaders[1], h \in LateHeaders[2] :
                  Classify(Table(<<<<g, a>>, <<h, b>>>>, n))

\* the dataset of the end-to-end scenario, as it is written
ClassifyScenario == calls = <<>> /\ Classify(Scenario)

\* datasets whose rows differ in their keys
NextSchema == LoadEmpty \/ ClassifyOnce \/ ClassifyScenario

SpecSchema == Init /\ [][NextSchema]_vars

Counts(metrics) ==
    /\ calls' = Append(calls, Call("buildGpaCountData", rows, metrics,
                                   buildGpaCountData(rows, metrics)))
    /\ UNCHANGED <<rows, loading, error, search, selectedRow, activeMetricKeys,
                   onlyWithMetric, view>>

\* the names of two metric columns, "gpa" among them
MetricHeaders == {<<"CGPA", "Math">>, <<"gpa", "Math">>, <<"CGPA", "gpa">>}

\* 3.674 rounds to 3.67 and 3.625 to 3.63
MetricCells ==
    {Num(Fin(367, 2)), Num(Fin(3674, 3)), Num(Fin(3625, 3)), Whole(4), Str(""),
     Str("N/A")}

\* two metric columns of two cells
LoadMetrics ==
    /\ loading
    /\ \E h \in MetricHeaders : \E cols \in [1..2 -> [1..2 -> MetricCells]] :
           Load(Table(<<<<h[1], cols[1]>>, <<h[2], cols[2]>>>>, 2))

\* the lists of different keys among the keys of the first row and "Lab",
\* which no row has
MetricLists(keys) ==
    {<<>>, <<"Lab">>} \cup {<<k>> : k \in Range(keys)}
    \cup {<<keys[x[1]], keys[x[2]]>> : x \in {y \in (DOMAIN keys) \X (DOMAIN keys) : y[1] # y[2]}}

\* one call of buildGpaCountData
CountsOnce ==
    /\ ~loading /\ calls = <<>>
    /\ \E metrics \in MetricLists(IF Len(rows) = 0 THEN <<>> ELSE Keys(rows[1])) :
           Counts(metrics)

NextCounts == LoadEmpty \/ LoadMetrics \/ CountsOnce

SpecCounts == Init /\ [][NextCounts]_vars

\* a call of a function of the rows, as the render of App makes it
Invoke(fn, arg, out) ==
    /\ calls' = Append(calls, Call(fn, rows, arg, out))
    /\ UNCHANGED <<rows, loading, error, search, selectedRow, activeMetricKeys,
                   onlyWithMetric, view>>

DetectText == Invoke("detectTextFields", <<>>, detectTextFields(rows))

DetectNumeric == Invoke("detectNumericFields", <<>>, detectNumericFields(rows))

ExtractSubjects ==
    Invoke("extractSubjectFields", detectTextFields(rows),
           extractSubjectFields(rows, detectTextFields(rows)))

Summarize(field) == Invoke("summary", field, summary(rows, field))

PairCells == {Num(Fin(367, 2)), Whole(4), Str("N/A")}

\* two students with a name and a CGPA
LoadPair ==
    /\ loading
    /\ \E cells \in [1..2 -> PairCells] :
           Load(Table(<<<<"Name", <<Str("Al"), Str("Bo")>>>>, <<"CGPA", cells>>>>, 2))

\* up to MaxCalls calls, before the sheet is loaded (the first render has no
\* rows) and after it
InvokeAny ==
    /\ Len(calls) < MaxCalls
    /\ \/ DetectText
       \/ DetectNumeric
       \/ ExtractSubjects
       \/ Summarize("CGPA")
       \/ Histogram("CGPA", 2)
       \/ Counts(<<"CGPA">>)

NextCalls == LoadEmpty \/ LoadPair \/ InvokeAny

\* a call of a function of a key
Label(fn, key, out) ==
    /\ calls' = Append(calls, Call(fn, <<>>, key, out))
    /\ UNCHANGED <<rows, loading, error, search, selectedRow, activeMetricKeys,
                   onlyWithMetric, view>>

MetricAlphabet == {"c", "g", "p", "a", "C", "G", " "}

PrettyAlphabet == {"a", "B", "1", "_", " ", "-"}

\* metricLabel of a key of up to MaxKeyLen characters
MetricLabelOnce ==
    /\ calls = <<>>
    /\ \E n \in 0..MaxKeyLen : \E spelling \in [1..n -> MetricAlphabet] :
           Label("metricLabel", Join(spelling, ""), metricLabel(Join(spelling, "")))

\* prettyKey of a key of up to MaxKeyLen characters
PrettyKeyOnce ==
    /\ calls = <<>>
    /\ \E n \in 0..MaxKeyLen : \E spelling \in [1..n -> PrettyAlphabet] :
           Label("prettyKey", Join(spelling, ""), prettyKey(Join(spelling, "")))

NextLabels == MetricLabelOnce \/ PrettyKeyOnce

SpecLabels == Init /\ [][NextLabels]_vars

SpecCalls == Init /\ [][NextCalls]_vars

----------------------------------------------------------------------------
(* Properties: field selection                                             *)

\* the keys of the first row, in their order
FirstRowKeys == IF Len(rows) = 0 THEN <<>> ELSE Keys(rows[1])

\* the first n names in lower case
RECURSIVE LowerCased(_, _)
LowerCased(names, n) ==
    IF n = 0 THEN <<>> ELSE Append(LowerCased(names, n - 1), ToLowerCase(names[n]))

\* whether one of the lower-case names contains the token
SomeContains(lower, token) == \E p \in DOMAIN lower : Includes(lower[p], token)

\* the first of the tokens that one of the lower-case names contains, else null
FirstToken(tokens, lower) ==
    IF \E i \in DOMAIN tokens : SomeContains(lower, tokens[i])
    THEN tokens[CHOOSE i \in DOMAIN tokens :
                    /\ SomeContains(lower, tokens[i])
                    /\ \A j \in 1..(i - 1) : ~SomeContains(lower, tokens[j])]
    ELSE Null

\* whether names[p] is the first name whose lower-case form contains the token
IsFirstContaining(names, lower, token, p) ==
    /\ Includes(lower[p], token)
    /\ \A q \in 1..(p - 1) : ~Includes(lower[q], token)

C1_Tokens == <<"roll", "reg", "registration", "enrol", "enrollment", "admission", "id">>

\* text fields in their order, then the other fields of the first row
C1_SearchOrder ==
    view.textFields
    \o SelectSeq(FirstRowKeys, LAMBDA key : \A i \in DOMAIN view.textFields : view.textFields[i] # key)

\* C1: idField is chosen by token priority first and field order second: it
\* is the first field, text fields first and then the rest of the first row,
\* whose lower-case name contains the first token of the priority list that
\* any first-row field name contains; without such a token there is no idField.
C1_IdFieldByTokenThenOrder ==
    LET order == C1_SearchOrder
        lowerOrder == LowerCased(C1_SearchOrder, Len(C1_SearchOrder))
        matched == FirstToken(C1_Tokens, LowerCased(FirstRowKeys, Len(FirstRowKeys)))
    IN  IF matched = Null THEN view.idField = Null
        ELSE \E p \in DOMAIN order :
                 view.idField = order[p] /\ IsFirstContaining(order, lowerOrder, matched, p)

\* a field later in the search order is chosen because its token comes
\* first, though an earlier text field contains another token
C1_Witness ==
    /\ Len(C1_SearchOrder) = 2
    /\ view.idField = C1_SearchOrder[2]
    /\ C1_SearchOrder[1] \in Range(view.textFields)
    /\ \E i \in DOMAIN C1_Tokens : Includes(ToLowerCase(C1_SearchOrder[1]), C1_Tokens[i])

C2_Substrings == <<"name", "student", "candidate">>

\* C2: primaryTextField is the first text field whose lower-case name has
\* the first of "name", "student", "candidate" that occurs in any text field
\* name; when none occurs it is the first text field, and none without text
\* fields.
C2_PrimaryTextField ==
    LET texts == view.textFields
        lower == LowerCased(view.textFields, Len(view.textFields))
        matched == FirstToken(C2_Substrings, lower)
    IN  IF Len(texts) = 0 THEN view.primaryTextField = Null
        ELSE IF matched = Null THEN view.primaryTextField = texts[1]
        ELSE \E p \in DOMAIN texts :
                 view.primaryTextField = texts[p] /\ IsFirstContaining(texts, lower, matched, p)

\* a later text field with "name" wins over an earlier one with "student"
C2_Witness ==
    /\ Len(view.textFields) = 2
    /\ Includes(ToLowerCase(view.textFields[1]), "student")
    /\ ~Includes(ToLowerCase(view.textFields[1]), "name")
    /\ Includes(ToLowerCase(view.textFields[2]), "name")
    /\ view.primaryTextField = view.textFields[2]

C3_Tokens ==
    {"cg", "cgpa", "gpa", "total", "aggregate", "overall", "sgpa", "percentage",
     "percent", "score"}

\* the places in the first row of the numeric fields whose lower-case name
\* contains a preferred token
C3_Preferred(numeric, lower) ==
    {p \in DOMAIN lower :
        /\ FirstRowKeys[p] \in numeric
        /\ \E token \in C3_Tokens : Includes(lower[p], token)}

C3_PreferredNow ==
    C3_Preferred(Range(view.numericFields), LowerCased(FirstRowKeys, Len(FirstRowKeys)))

\* C3: when a numeric field name contains a preferred token,
\* primaryNumericField is the first such numeric field in first-row key order.
C3_PrimaryNumericMatch ==
    LET preferred == C3_PreferredNow
    IN  preferred # {} =>
            \E p \in preferred :
                /\ view.primaryNumericField = FirstRowKeys[p]
                /\ \A q \in preferred : p <= q

\* the second field is chosen for its name, before a numeric first field
\* that is a subject
C3_Witness ==
    /\ Len(FirstRowKeys) = 2
    /\ view.numericFields = FirstRowKeys
    /\ Len(view.subjectFields) = 1 /\ view.subjectFields[1].key = FirstRowKeys[1]
    /\ view.primaryNumericField = FirstRowKeys[2]

C4_NoPreferred == C3_PreferredNow = {}

\* C4 as claimed: without a preferred name, primaryNumericField is the first
\* subject key if there is a subject, else the first numeric field, else none.
C4_FallbackChain ==
    C4_NoPreferred =>
        view.primaryNumericField =
            IF Len(view.subjectFields) > 0 THEN view.subjectFields[1].key
            ELSE IF Len(view.numericFields) > 0 THEN view.numericFields[1]
            ELSE Null

\* C4 amended: without a preferred name, primaryNumericField is none when the
\* first row has no numeric field, whether or not there are subjects; else it
\* is the first subject key if there is a subject, else the first numeric field.
C4_FallbackChainWithNumeric ==
    C4_NoPreferred =>
        view.primaryNumericField =
            IF Len(view.numericFields) = 0 THEN Null
            ELSE IF Len(view.subjectFields) > 0 THEN view.subjectFields[1].key
            ELSE view.numericFields[1]

\* the first subject is chosen though another numeric field comes first
C4_Witness ==
    /\ C4_NoPreferred
    /\ Len(view.numericFields) = 2
    /\ Len(view.subjectFields) = 1
    /\ view.primaryNumericField = view.subjectFields[1].key
    /\ view.primaryNumericField # view.numericFields[1]

----------------------------------------------------------------------------
(* Properties: subject extraction                                          *)

SubjectKeys(descriptors) == [i \in DOMAIN descriptors |-> descriptors[i].key]

C5_IdLike == {"roll", "reg", "registration", "enrol", "enrollment", "id"}

C5_Aggregate ==
    {"total", "aggregate", "overall", "gpa", "cgpa", "sgpa", "percentage", "percent",
     "score"}

\* a value that is neither empty nor absent and is not a finite number
C5_BadValue(cell) == ~IsBlank(cell) /\ ~IsFinite(ToNum(cell))

\* rules 2 and 3, of a name in lower case
C5_NameRejected(lower) ==
    \/ \E token \in C5_IdLike : Includes(lower, token)
    \/ \E token \in C5_Aggregate : Includes(lower, token)

\* rules 4 and 5
C5_ValuesRejected(key) ==
    \/ \E i \in DOMAIN rows : C5_BadValue(Get(rows[i], key))
    \/ \A i \in DOMAIN rows : ~IsFinite(ToNum(Get(rows[i], key)))

\* the places in the first row of the keys that rules 2 to 5 leave
C5_Candidates(lower) ==
    {p \in DOMAIN lower : ~C5_NameRejected(lower[p]) /\ ~C5_ValuesRejected(FirstRowKeys[p])}

\* the keys that the five rules leave, for the places rules 2 to 5 leave and
\* the set of the text fields' lower-case names
C5_Kept(lower, candidates, lowerTexts) ==
    SelectSeq([p \in DOMAIN lower |-> IF p \in candidates /\ lower[p] \notin lowerTexts
                                      THEN FirstRowKeys[p] ELSE Null],
              LAMBDA key : key # Null)

C5_Texts(lower, texts) == {lower[p] : p \in {q \in DOMAIN lower : FirstRowKeys[q] \in texts}}

\* C5: for every dataset and every set of text fields, the keys of the
\* subject descriptors are the first-row keys that none of the five rules
\* rejects, in first-row key order and unmodified.
C5_FiveRuleFilter ==
    LET lower == LowerCased(FirstRowKeys, Len(FirstRowKeys))
        candidates == C5_Candidates(LowerCased(FirstRowKeys, Len(FirstRowKeys)))
    IN  /\ SubjectKeys(view.subjectFields)
               = C5_Kept(lower, candidates, C5_Texts(lower, Range(view.textFields)))
        /\ \A texts \in SUBSET Range(FirstRowKeys) :
               SubjectKeys(extractSubjectFields(rows, SelectSeq(FirstRowKeys, LAMBDA k : k \in texts)))
                   = C5_Kept(lower, candidates, C5_Texts(lower, texts))

\* of two fields the extractor keeps the second and rejects the first for
\* its name alone, its values being numeric in every row
C5_Witness ==
    /\ Len(FirstRowKeys) = 2
    /\ SubjectKeys(view.subjectFields) = <<FirstRowKeys[2]>>
    /\ \A i \in DOMAIN rows : IsFinite(ToNum(Get(rows[i], FirstRowKeys[1])))
    /\ \E token \in C5_Aggregate : Includes(ToLowerCase(FirstRowKeys[1]), token)

\* whether rules 1 to 3 leave the key
C6_NameKept(key) ==
    /\ ~C5_NameRejected(ToLowerCase(key))
    /\ \A i \in DOMAIN view.textFields : ToLowerCase(view.textFields[i]) # ToLowerCase(key)

\* C6: a column is no subject as soon as one row, the first or a later one,
\* holds a value that is neither empty nor absent and is not a finite number,
\* however many rows hold numbers; and empty or absent cells never disqualify
\* a column: with a name no rule rejects, no bad value and at least one
\* number, the column is a subject.
C6_AnyBadValueDisqualifies ==
    \A key \in Range(FirstRowKeys) :
        /\ (\E i \in DOMAIN rows : C5_BadValue(Get(rows[i], key)))
               => key \notin Range(SubjectKeys(view.subjectFields))
        /\ ( /\ \A i \in DOMAIN rows : ~C5_BadValue(Get(rows[i], key))
             /\ \E i \in DOMAIN rows : IsFinite(ToNum(Get(rows[i], key)))
             /\ C6_NameKept(key) )
               => key \in Range(SubjectKeys(view.subjectFields))

\* a column that is numeric in its first and its last row is excluded for
\* the value of the row between them
C6_Witness ==
    /\ Len(rows) = 3
    /\ \E key \in Range(FirstRowKeys) :
           /\ IsFinite(ToNum(Get(rows[1], key)))
           /\ C5_BadValue(Get(rows[2], key))
           /\ IsFinite(ToNum(Get(rows[3], key)))
           /\ C6_NameKept(key)
           /\ key \notin Range(SubjectKeys(view.subjectFields))

\* <digits>[.<digits>]
C7_IsNumber(text) ==
    /\ Len(text) > 0
    /\ \A i \in 1..Len(text) : IsDigit(Char(text, i)) \/ Char(text, i) = "."
    /\ Cardinality({i \in 1..Len(text) : Char(text, i) = "."}) <= 1
    /\ Char(text, 1) # "." /\ Char(text, Len(text)) # "."

\* the positions of the brackets around each parenthesized number
C7_Groups(header) ==
    {g \in (1..Len(header)) \X (1..Len(header)) :
        /\ g[1] < g[2]
        /\ Char(header, g[1]) = "(" /\ Char(header, g[2]) = ")"
        /\ C7_IsNumber(SubSeq(header, g[1] + 1, g[2] - 1))}

C7_Leftmost(header) ==
    CHOOSE g \in C7_Groups(header) : \A h \in C7_Groups(header) : g[1] <= h[1]

\* the header without the white space at its end
C7_Stripped(header) ==
    IF \A i \in 1..Len(header) : Char(header, i) \in WhiteSpace THEN ""
    ELSE SubSeq(header, 1,
                CHOOSE n \in 1..Len(header) :
                    /\ Char(header, n) \notin WhiteSpace
                    /\ \A i \in (n + 1)..Len(header) : Char(header, i) \in WhiteSpace)

\* where a number can start that ends the header
C7_Endings(text) == {i \in 1..Len(text) : C7_IsNumber(SubSeq(text, i, Len(text)))}

C7_Longest(text) ==
    SubSeq(text, CHOOSE i \in C7_Endings(text) : \A j \in C7_Endings(text) : i <= j,
           Len(text))

\* the digits of a number text as one integer
RECURSIVE C7_DigitsOf(_, _)
C7_DigitsOf(text, n) ==
    IF n = 0 THEN 0
    ELSE IF Char(text, n) = "." THEN C7_DigitsOf(text, n - 1)
    ELSE 10 * C7_DigitsOf(text, n - 1) + DigitVal(Char(text, n))

C7_Decimals(text) ==
    IF \E i \in 1..Len(text) : Char(text, i) = "."
    THEN Len(text) - (CHOOSE i \in 1..Len(text) : Char(text, i) = ".")
    ELSE 0

C7_ValueOf(text) == Fin(C7_DigitsOf(text, Len(text)), C7_Decimals(text))

C7_Expected(header) ==
    IF C7_Groups(header) # {}
    THEN C7_ValueOf(SubSeq(header, C7_Leftmost(header)[1] + 1, C7_Leftmost(header)[2] - 1))
    ELSE IF C7_Endings(C7_Stripped(header)) # {}
         THEN C7_ValueOf(C7_Longest(C7_Stripped(header)))
    ELSE NullNum

\* C7: the credit of a subject is the leftmost parenthesized number of its
\* header if there is one, even when the header also ends in a number; else
\* the number the header ends in, white space after it allowed; else none.
\* "Physics (3.0) Lab 2" gives 3.0 and "Chemistry 3" gives 3.
C7_CreditPrecedence ==
    \A i \in DOMAIN view.subjectFields :
        /\ view.subjectFields[i].credit = C7_Expected(view.subjectFields[i].key)
        /\ view.subjectFields[i].key = "Physics (3.0) Lab 2"
               => view.subjectFields[i].credit = Fin(3, 0)
        /\ view.subjectFields[i].key = "Chemistry 3"
               => view.subjectFields[i].credit = Fin(3, 0)

\* a header with a parenthesized number that ends in another number
C7_Witness ==
    \E i \in DOMAIN view.subjectFields :
        /\ C7_Groups(view.subjectFields[i].key) # {}
        /\ C7_Endings(C7_Stripped(view.subjectFields[i].key)) # {}
        /\ C7_ValueOf(C7_Longest(C7_Stripped(view.subjectFields[i].key)))
               # view.subjectFields[i].credit
        /\ view.subjectFields[i].credit # NullNum

\* C8 as claimed: the credit of every subject descriptor is none or a
\* strictly positive number, never zero.
C8_CreditNoneOrPositive ==
    \A i \in DOMAIN view.subjectFields :
        \/ view.subjectFields[i].credit = NullNum
        \/ view.subjectFields[i].credit.k = "fin" /\ view.subjectFields[i].credit.m > 0

----------------------------------------------------------------------------
(* Properties: summary                                                     *)

\* the finite numbers among the values of the first n rows at a field, each
\* with its row
RECURSIVE C9_Finite(_, _)
C9_Finite(f, n) ==
    IF n = 0 THEN {}
    ELSE IF IsFinite(ToNum(Get(rows[n], f)))
         THEN C9_Finite(f, n - 1) \cup {<<n, ToNum(Get(rows[n], f))>>}
    ELSE C9_Finite(f, n - 1)

\* the most decimals any of the values has
C9_Decimals(finite) ==
    CHOOSE e \in {v[2].e : v \in finite} : \A v \in finite : v[2].e <= e

\* the sum of the values, in units of 10^-e
RECURSIVE C9_Total(_, _)
C9_Total(finite, e) ==
    IF finite = {} THEN 0
    ELSE C9_Total(finite \ {CHOOSE v \in finite : TRUE}, e)
             + (CHOOSE v \in finite : TRUE)[2].m
                   * Pow10(e - (CHOOSE v \in finite : TRUE)[2].e)

\* avg times the number of values is their sum, of total units of 10^-e
C9_IsMean(avg, count, total, e) ==
    \/ avg.k = "fin" /\ avg.m * count * Pow10(e) = total * Pow10(avg.e)
    \/ avg.k = "ratio" /\ avg.p * count * Pow10(e) = total * avg.q

C9_IsMax(max, finite) ==
    /\ \E v \in finite : v[2] = max
    /\ \A v \in finite : ~NumLess(max, v[2])

C9_IsMin(min, finite) ==
    /\ \E v \in finite : v[2] = min
    /\ \A v \in finite : ~NumLess(v[2], min)

C9_Computed(stats, finite) ==
    /\ C9_IsMean(stats.avgScore, Cardinality(finite),
                 C9_Total(finite, C9_Decimals(finite)), C9_Decimals(finite))
    /\ C9_IsMax(stats.maxScore, finite)
    /\ C9_IsMin(stats.minScore, finite)

C9_Describes(stats, f) ==
    LET finite == IF f = Null THEN {} ELSE C9_Finite(f, Len(rows))
    IN  /\ (stats.avgScore = NullNum) = (stats.maxScore = NullNum)
        /\ (stats.avgScore = NullNum) = (stats.minScore = NullNum)
        /\ IF finite = {} THEN stats.avgScore = NullNum ELSE C9_Computed(stats, finite)

\* C9: with rows and a primary numeric field, avgScore, maxScore and
\* minScore are the mean, the maximum and the minimum of the values at that
\* field that are finite numbers, the others being skipped and not counted
\* as zero; without a finite value, without rows or without a primary numeric
\* field all three are none. The three are none together or not at all. This
\* holds for the field App designates and for any field it could designate.
C9_SummaryStatistics ==
    /\ C9_Describes(view.summary, view.primaryNumericField)
    /\ \A f \in Range(FirstRowKeys) : C9_Describes(summary(rows, f), f)

\* the mean of two different values of three rows, the third being empty,
\* absent or not a number
C9_Witness ==
    /\ Len(rows) = 3
    /\ view.primaryNumericField # Null
    /\ Cardinality(C9_Finite(view.primaryNumericField, 3)) = 2
    /\ view.summary.maxScore # view.summary.minScore
    /\ view.summary.avgScore # NullNum
    /\ view.summary.avgScore # view.summary.maxScore

\* the outputs of the classifier and the summary
C10_Classified(v) ==
    <<v.textFields, v.numericFields, v.subjectFields, v.primaryTextField, v.idField,
      v.primaryNumericField, v.defaultMetricKey, v.metricOptions, v.summary>>

\* C10: totalStudents is always the number of rows of the full dataset, and
\* no search edit, filter toggle, metric toggle or row selection changes the
\* summary or the classification: while the rows stay, only the filtered
\* rows and what follows from the metric selection can change.
C10_SummaryOfFullDataset ==
    /\ [](view.summary.totalStudents = Len(rows))
    /\ [][rows' = rows => C10_Classified(view') = C10_Classified(view)]_vars

\* a searched, filtered state with a metric and a row selected, where fewer
\* rows are listed than the summary counts
C10_Witness ==
    /\ search # "" /\ onlyWithMetric /\ activeMetricKeys # <<>> /\ selectedRow # 0
    /\ Len(view.filteredRows) > 0
    /\ Len(view.filteredRows) < Len(rows)
    /\ view.summary.totalStudents = Len(rows)
    /\ view.summary.avgScore # NullNum

----------------------------------------------------------------------------
(* Properties: histogram                                                   *)

HistogramCalls == {i \in DOMAIN calls : calls[i].fn = "buildHistogramData"}

\* the finite values the rows hold at the field of a call, each with its row
H_Finite(call) ==
    IF call.arg[1] = Null THEN {} ELSE C9_Finite(call.arg[1], Len(rows))

H_Values(finite) == {v[2] : v \in finite}

RECURSIVE H_Sum(_, _)
H_Sum(bins, n) == IF n = 0 THEN 0 ELSE H_Sum(bins, n - 1) + bins[n].count

\* C11 as claimed: for a field with at least one finite value, the counts of
\* the bins add up to the number of rows with a finite value at the field.
C11_TotalCount ==
    \A i \in HistogramCalls :
        H_Finite(calls[i]) # {}
            => H_Sum(calls[i].out, Len(calls[i].out)) = Cardinality(H_Finite(calls[i]))

\* C11 amended: for a field with at least two different finite values, the
\* counts of the bins add up to the number of rows with a finite value at the
\* field; with one finite value, or several that are all equal, there are no
\* bins.
C11_TotalCountOfDistinct ==
    \A i \in HistogramCalls :
        LET finite == H_Finite(calls[i])
        IN  IF Cardinality(H_Values(finite)) >= 2
            THEN H_Sum(calls[i].out, Len(calls[i].out)) = Cardinality(finite)
            ELSE calls[i].out = <<>>

\* three rows, one without a number, and two different finite values
\* counted in one bin
C11_Witness ==
    \E i \in HistogramCalls :
        /\ Len(rows) = 3
        /\ Cardinality(H_Finite(calls[i])) = 2
        /\ Len(calls[i].out) = 1
        /\ calls[i].out[1].count = 2

\* the least and the greatest of the values of a non-empty set
H_Min(values) == CHOOSE v \in values : \A w \in values : ~NumLess(w, v)
H_Max(values) == CHOOSE v \in values : \A w \in values : ~NumLess(v, w)

\* C12: when the histogram is not empty, every finite value is counted in
\* exactly one bin with an index from 0 to binCount - 1: the counts of the
\* binCount bins add up to the number of finite values, each occurrence of
\* the maximum is counted in the last bin and each occurrence of the minimum
\* in bin 0.
C12_BoundaryInclusion ==
    \A c \in HistogramCalls :
        LET finite == H_Finite(calls[c])
            out == calls[c].out
        IN  out # <<>> =>
                /\ Len(out) = calls[c].arg[2]
                /\ H_Sum(out, Len(out)) = Cardinality(finite)
                /\ out[Len(out)].count
                       >= Cardinality({v \in finite : v[2] = H_Max(H_Values(finite))})
                /\ out[1].count
                       >= Cardinality({v \in finite : v[2] = H_Min(H_Values(finite))})
                /\ Cardinality(H_Values(finite)) = 2 /\ Len(out) >= 2
                       => out[Len(out)].count
                              = Cardinality({v \in finite : v[2] = H_Max(H_Values(finite))})

\* two rows hold the maximum and the last of several bins counts both
C12_Witness ==
    \E c \in HistogramCalls :
        /\ Len(calls[c].out) > 1
        /\ Cardinality({v \in H_Finite(calls[c]) :
                            v[2] = H_Max(H_Values(H_Finite(calls[c])))}) = 2
        /\ calls[c].out[Len(calls[c].out)].count = 2

\* the number a bin label starts with
H_Start(bin) == ParseFloat(bin.range)

\* C13: the histogram is empty when there are no rows, when the field has no
\* finite value and when all its finite values are equal; else it has
\* exactly binCount bins, 8 by default, in ascending order of their ranges.
C13_Shape ==
    \A c \in HistogramCalls :
        LET values == H_Values(H_Finite(calls[c]))
            out == calls[c].out
            n == calls[c].arg[2]
        IN  IF Len(rows) = 0 \/ Cardinality(values) < 2 THEN out = <<>>
            ELSE /\ Len(out) = n
                 /\ \A i \in 1..n : IsFinite(H_Start(out[i]))
                 /\ \A i \in 1..(n - 1) : ~NumLess(H_Start(out[i + 1]), H_Start(out[i]))

\* the eight bins of a call with the default
C13_Witness ==
    \E c \in HistogramCalls :
        /\ calls[c].arg[2] = DefaultBins
        /\ Len(calls[c].out) = 8
        /\ calls[c].out[1].range # calls[c].out[8].range

----------------------------------------------------------------------------
(* Properties: grouped counts                                              *)

CountCalls == {i \in DOMAIN calls : calls[i].fn = "buildGpaCountData"}

\* the finite values of the rows at a metric, rounded, each with its row
G_Rounded(metric) == {<<v[1], toFixed2(v[2])>> : v \in C9_Finite(metric, Len(rows))}

\* the rounded values of the rows at the metrics of a list
G_Buckets(metrics) ==
    UNION {{v[2] : v \in G_Rounded(metrics[k])} : k \in DOMAIN metrics}

\* the bucket value of an emitted row
G_Bucket(row) == row["gpa"]

\* the sum of the counts the first n emitted rows store under a metric
RECURSIVE G_Sum(_, _, _)
G_Sum(out, metric, n) ==
    IF n = 0 THEN 0
    ELSE G_Sum(out, metric, n - 1)
             + (IF metric \in DOMAIN out[n] THEN out[n][metric].m ELSE 0)

\* the count under a metric in an emitted row is the number of rows whose
\* value at the metric rounds to the bucket value of the row, and no count
\* is stored for none
G_ExactIn(row, metric) ==
    LET n == Cardinality({v \in G_Rounded(metric) : v[2] = G_Bucket(row)})
    IN  IF n = 0 THEN metric \notin DOMAIN row
        ELSE metric \in DOMAIN row /\ row[metric] = Fin(n, 0)

G_Exact(call) ==
    \A k \in DOMAIN call.arg :
        /\ \A j \in DOMAIN call.out : G_ExactIn(call.out[j], call.arg[k])
        /\ G_Sum(call.out, call.arg[k], Len(call.out))
               = Cardinality(C9_Finite(call.arg[k], Len(rows)))

\* C14 as claimed: for every metric list the count an emitted row stores
\* under a metric is the number of rows whose value at the metric is finite
\* and rounds to the bucket value of the row; a metric without such a row is
\* absent from the row; the counts of a metric add up to the number of rows
\* with a finite value at it.
C14_ExactCounts == \A c \in CountCalls : G_Exact(calls[c])

\* whether no metric of the list has the name the rows keep their bucket
\* value under
G_Plain(call) == "gpa" \notin Range(call.arg)

\* C14 for the metric lists without a metric named "gpa"
C14_ExactCountsOfOtherKeys == \A c \in CountCalls : G_Plain(calls[c]) => G_Exact(calls[c])

\* one row for each rounded value, in strictly ascending order
G_Union(call) ==
    /\ Len(call.out) = Cardinality(G_Buckets(call.arg))
    /\ {G_Bucket(call.out[j]) : j \in DOMAIN call.out} = G_Buckets(call.arg)
    /\ \A j \in 1..(Len(call.out) - 1) :
           NumLess(G_Bucket(call.out[j]), G_Bucket(call.out[j + 1]))
    /\ Len(rows) = 0 \/ Len(call.arg) = 0 => call.out = <<>>

\* C15 as claimed: the result has one row for each different rounded value
\* of any requested metric, metrics with the same rounded value sharing the
\* row, in strictly ascending order of bucket value; it is empty without rows
\* or without metrics.
C15_UnionOfBuckets == \A c \in CountCalls : G_Union(calls[c])

\* C15 for the metric lists without a metric named "gpa"
C15_UnionOfBucketsOfOtherKeys == \A c \in CountCalls : G_Plain(calls[c]) => G_Union(calls[c])

\* the bucket value of every emitted row is the rounding of a value of a
\* requested metric, and no two rows have the same
G_Intact(out, metrics) ==
    /\ \A j \in DOMAIN out : G_Bucket(out[j]) \in G_Buckets(metrics)
    /\ \A i, j \in DOMAIN out : i # j => G_Bucket(out[i]) # G_Bucket(out[j])

\* C16 as claimed: in every emitted row the bucket value is the rounding of
\* the cells that contributed to the row, whatever the metrics are named, a
\* metric named "gpa" included: in the rows a call returns and in the rows
\* App charts.
C16_BucketIntegrity ==
    /\ \A c \in CountCalls : G_Intact(calls[c].out, calls[c].arg)
    /\ G_Intact(view.chartData, view.chartMetricKeys)

\* C16 for the metric lists without a metric named "gpa"
C16_BucketIntegrityOfOtherKeys ==
    \A c \in CountCalls : G_Plain(calls[c]) => G_Intact(calls[c].out, calls[c].arg)

\* two metrics share a row: 3.674 of one and 3.67 of the other are counted
\* under the bucket value 3.67
G_SharedRow ==
    \E c \in CountCalls :
        /\ G_Plain(calls[c])
        /\ Len(calls[c].arg) = 2
        /\ \E j \in DOMAIN calls[c].out :
               /\ G_Bucket(calls[c].out[j]) = Fin(367, 2)
               /\ DOMAIN calls[c].out[j] = {"gpa"} \cup Range(calls[c].arg)
        /\ \E i \in DOMAIN rows : \E k \in DOMAIN rows[i] : rows[i][k].v = Num(Fin(3674, 3))

----------------------------------------------------------------------------
(* Properties: the first row as the schema                                 *)

\* a field the name rules keep, with a finite number in the first row and a
\* value in a later row that is neither empty nor a number
C17_Diverging(key) ==
    /\ C6_NameKept(key)
    /\ IsFinite(ToNum(Get(rows[1], key)))
    /\ \E i \in 2..Len(rows) : C5_BadValue(Get(rows[i], key))

\* C17: a field that no name rule rejects, whose value in the first row is a
\* finite number and that holds a non-empty non-numeric value in some later
\* row, is one of numericFields and is the key of no subject descriptor.
C17_NumericButNoSubject ==
    \A key \in Range(FirstRowKeys) :
        C17_Diverging(key) =>
            /\ key \in Range(view.numericFields)
            /\ key \notin Range(SubjectKeys(view.subjectFields))

\* such a field is primaryNumericField
C17_Witness ==
    /\ view.primaryNumericField \in Range(FirstRowKeys)
    /\ C17_Diverging(view.primaryNumericField)
    /\ view.primaryNumericField \notin Range(SubjectKeys(view.subjectFields))

ClassifyCalls == {i \in DOMAIN calls : calls[i].fn = "classify"}

\* the keys of the first row of a dataset
C18_FirstKeys(data) == IF Len(data) = 0 THEN {} ELSE Range(Keys(data[1]))

\* the keys of the rows after the first that the first row lacks
C18_LateKeys(data) ==
    UNION {Range(Keys(data[i])) : i \in 2..Len(data)} \ C18_FirstKeys(data)

\* the fields a classification selects
C18_Chosen(out) ==
    Range(out.textFields) \cup Range(out.numericFields)
        \cup Range(SubjectKeys(out.subjectFields))
        \cup ({out.idField, out.primaryTextField, out.primaryNumericField} \ {Null})

C18_Schema(data, out) ==
    /\ C18_Chosen(out) \subseteq C18_FirstKeys(data)
    /\ C18_Chosen(out) \cap C18_LateKeys(data) = {}
    /\ Len(data) > 0 =>
           /\ out.textFields = detectTextFields(SubSeq(data, 1, 1))
           /\ out.numericFields = detectNumericFields(SubSeq(data, 1, 1))

\* C18: the text fields, the numeric fields, the keys of the subject
\* descriptors, idField, primaryTextField and primaryNumericField are keys of
\* the first row (or none); a key of later rows only is in none of them; and
\* the text and the numeric fields of a dataset are those of its first row
\* alone, so no later row changes them.
C18_FirstRowAsSchema ==
    /\ C18_Schema(rows, view)
    /\ \A c \in ClassifyCalls : C18_Schema(calls[c].data, calls[c].out)

\* only the rows after the first have the key "Roll", with a number: no
\* identifier is selected and the numeric fields are without it
C18_Witness ==
    \E c \in ClassifyCalls :
        /\ "Roll" \in C18_LateKeys(calls[c].data)
        /\ \E i \in 2..Len(calls[c].data) : IsFinite(ToNum(Get(calls[c].data[i], "Roll")))
        /\ calls[c].out.idField = Null
        /\ Len(calls[c].out.textFields) + Len(calls[c].out.numericFields) = 1

----------------------------------------------------------------------------
(* Properties: the empty dataset, and determinism                          *)

\* the summary of no student
C19_NoSummary ==
    [totalStudents |-> 0, avgScore |-> NullNum, maxScore |-> NullNum, minScore |-> NullNum]

\* C19: without rows the text fields, the numeric fields and the subject
\* descriptors are empty, idField, primaryTextField and primaryNumericField
\* are none, the summary is {0, none, none, none}, the histogram and the
\* grouped counts are empty, and loading the empty sheet sets no error.
C19_EmptyDataset ==
    /\ Len(rows) = 0 =>
           /\ view.textFields = <<>>
           /\ view.numericFields = <<>>
           /\ view.subjectFields = <<>>
           /\ view.idField = Null
           /\ view.primaryTextField = Null
           /\ view.primaryNumericField = Null
           /\ view.summary = C19_NoSummary
           /\ view.chartData = <<>>
           /\ error = Null
    /\ \A c \in DOMAIN calls :
           Len(calls[c].data) = 0 =>
               calls[c].out = IF calls[c].fn = "summary" THEN C19_NoSummary ELSE <<>>

\* the sheet was loaded and has no rows; the histogram and the grouped counts
\* were asked for
C19_Witness ==
    /\ ~loading
    /\ Len(rows) = 0
    /\ {calls[c].fn : c \in DOMAIN calls} = {"buildHistogramData", "buildGpaCountData"}
    /\ \A c \in DOMAIN calls : Len(calls[c].data) = 0

----------------------------------------------------------------------------
(* Properties: the dataset and the state of App                            *)

\* indexes of rows of the dataset, each once and in the order of the dataset
C21_IsSubsequence(indexes, rs) ==
    /\ \A n \in DOMAIN indexes : indexes[n] \in DOMAIN rs
    /\ \A n \in 1..(Len(indexes) - 1) : indexes[n] < indexes[n + 1]

\* C21: once the sheet is loaded no event of App, with the detection, the
\* extraction, the summary, the filtering and the grouped counts of the render
\* that follows it, changes the dataset: the rows stay what was loaded, and
\* the filtered rows are rows of the dataset in the order of the dataset.
C21_DatasetImmutable ==
    [][/\ ~loading => rows' = rows
       /\ C21_IsSubsequence(view'.filteredRows, rows')]_vars

\* a search keeps the first and the third of three rows, a metric was
\* toggled and the grouped counts of the two rows are charted
C21_Witness ==
    /\ Len(rows) = 3
    /\ view.filteredRows = <<1, 3>>
    /\ activeMetricKeys # <<>>
    /\ view.chartData # <<>>

\* C22: for the dataset of the end-to-end scenario idField is "Reg",
\* primaryTextField is "Name", primaryNumericField is "CGPA", the summary is
\* 2 students with the average, the highest and the lowest score 3.67, and
\* the grouped counts over CGPA are the one row of bucket value 3.67 with the
\* count 2 under CGPA.
C22_Scenario ==
    \A c \in ClassifyCalls :
        calls[c].data = Scenario =>
            /\ calls[c].out.idField = "Reg"
            /\ calls[c].out.primaryTextField = "Name"
            /\ calls[c].out.primaryNumericField = "CGPA"
            /\ calls[c].out.summary.totalStudents = 2
            /\ calls[c].out.summary.avgScore = Fin(367, 2)
            /\ calls[c].out.summary.maxScore = Fin(367, 2)
            /\ calls[c].out.summary.minScore = Fin(367, 2)
            /\ calls[c].out.chartMetricKeys = <<"CGPA">>
            /\ Len(calls[c].out.chartData) = 1
            /\ DOMAIN calls[c].out.chartData[1] = {"gpa", "CGPA"}
            /\ calls[c].out.chartData[1]["gpa"] = Fin(367, 2)
            /\ calls[c].out.chartData[1]["CGPA"] = Fin(2, 0)

\* the scenario was classified
C22_Witness ==
    \E c \in ClassifyCalls :
        calls[c].data = Scenario /\ Len(calls[c].out.chartData) = 1

----------------------------------------------------------------------------
(* Properties: labels                                                      *)

LabelCalls(fn) == {i \in DOMAIN calls : calls[i].fn = fn}

\* text occurs in s
C23_Contains(s, text) ==
    \E i \in 1..(Len(s) - Len(text) + 1) : SubSeq(s, i, i + Len(text) - 1) = text

\* C23: metricLabel returns "CGPA" exactly when the key in lower case is
\* "cg" or "cgpa" or contains "cgpa" or " cg", and the prettified key for
\* every other key.
C23_MetricLabel ==
    \A c \in LabelCalls("metricLabel") :
        LET lower == ToLowerCase(calls[c].arg)
            named == \/ lower = "cg"
                     \/ lower = "cgpa"
                     \/ C23_Contains(lower, "cgpa")
                     \/ C23_Contains(lower, " cg")
        IN  /\ named => calls[c].out = "CGPA"
            /\ ~named => calls[c].out = prettyKey(calls[c].arg)
            /\ calls[c].out = "CGPA" /\ prettyKey(calls[c].arg) # "CGPA" => named

\* "cg" after a space inside a key that is neither "cg" nor contains "cgpa",
\* and the prettified key is another label
C23_Witness ==
    \E c \in LabelCalls("metricLabel") :
        /\ C23_Contains(ToLowerCase(calls[c].arg), " cg")
        /\ ~C23_Contains(ToLowerCase(calls[c].arg), "cgpa")
        /\ calls[c].arg # ToLowerCase(calls[c].arg)
        /\ calls[c].out = "CGPA"
        /\ prettyKey(calls[c].arg) # "CGPA"

\* s without its whitespace and its underscores
RECURSIVE C24_Squeezed(_, _)
C24_Squeezed(s, i) ==
    IF i > Len(s) THEN ""
    ELSE (IF SubSeq(s, i, i) \in WhiteSpace \cup {"_"} THEN "" ELSE SubSeq(s, i, i))
         \o C24_Squeezed(s, i + 1)

C24_Normal(key, out) ==
    /\ "_" \notin CharsOf(out)
    /\ \A i \in 1..(Len(out) - 1) :
           ~(SubSeq(out, i, i) \in WhiteSpace /\ SubSeq(out, i + 1, i + 1) \in WhiteSpace)
    /\ out # "" => SubSeq(out, 1, 1) \notin WhiteSpace
                   /\ SubSeq(out, Len(out), Len(out)) \notin WhiteSpace
    /\ \A i \in 1..(Len(out) - 1) :
           ~(IsLower(SubSeq(out, i, i)) /\ IsUpper(SubSeq(out, i + 1, i + 1)))
    /\ ToLowerCase(C24_Squeezed(out, 1)) = ToLowerCase(C24_Squeezed(key, 1))
    /\ \A i \in 1..Len(out) :
           IsLower(SubSeq(out, i, i)) => i > 1 /\ SubSeq(out, i - 1, i - 1) \notin WhiteSpace
    /\ key = "" => out = ""
    /\ prettyKey(out) = out

\* C24: prettyKey returns, for every key, a string without underscore,
\* without two whitespace characters in a row and without whitespace at its
\* ends; it has the characters of the key other than whitespace and
\* underscores, in their order and up to case, with a space wherever a lower
\* case letter was followed by an upper case letter; no word of it begins
\* with a lower case letter; the empty key gives the empty string; and
\* prettyKey of the result is the result.
C24_Prettify ==
    \A c \in LabelCalls("prettyKey") : C24_Normal(calls[c].arg, calls[c].out)

\* a key with a lower case letter before an upper case one, then an
\* underscore and a space between two words
C24_Witness ==
    \E c \in LabelCalls("prettyKey") :
        /\ C23_Contains(calls[c].arg, "aB_ a")
        /\ calls[c].out = "A B A"

----------------------------------------------------------------------------
(* Properties: the primary numeric field and the metrics of the chart      *)

\* C25 as claimed: primaryNumericField is none or one of numericFields.
C25_PrimaryNumericIsNumeric ==
    view.primaryNumericField \in Range(view.numericFields) \cup {Null}

\* C25 amended: primaryNumericField is none, or one of numericFields, or the
\* key of the first subject descriptor, a key of the first row whose cell in
\* the first row is empty; the last only when there are numeric fields and no
\* name of them is preferred.
C25_PrimaryNumericOrigin ==
    \/ view.primaryNumericField \in Range(view.numericFields) \cup {Null}
    \/ /\ Len(view.subjectFields) > 0
       /\ view.primaryNumericField = view.subjectFields[1].key
       /\ view.primaryNumericField \in Range(FirstRowKeys)
       /\ IsBlank(Get(rows[1], view.primaryNumericField))
       /\ Len(view.numericFields) > 0
       /\ C4_NoPreferred

\* the summary is taken over a field that is not numeric in the first row
C25_Witness ==
    /\ view.primaryNumericField # Null
    /\ view.primaryNumericField \notin Range(view.numericFields)
    /\ view.summary.avgScore # NullNum

\* the rows with a value at the key that is not empty and is a finite number
C26_RowsWith(key) ==
    {i \in DOMAIN rows :
        LET raw == Get(rows[i], key)
        IN  ~(raw.t = "undefined" \/ (raw.t = "string" /\ raw.s = "")) /\ IsFinite(ToNum(raw))}

\* C26: the metrics of the chart are the active selection when it is not
\* empty, else the one default metric, primaryNumericField or else the key
\* of the first subject, else none; no key is twice in the active selection;
\* and the filter "only rows with this metric" keeps rows with a number at
\* the first metric of the chart, all of them when nothing is searched for.
C26_ChartMetricFallback ==
    /\ view.chartMetricKeys =
           IF Len(activeMetricKeys) > 0 THEN activeMetricKeys
           ELSE IF view.primaryNumericField # Null THEN <<view.primaryNumericField>>
           ELSE IF Len(view.subjectFields) > 0 THEN <<view.subjectFields[1].key>>
           ELSE <<>>
    /\ \A i, j \in DOMAIN activeMetricKeys :
           i # j => activeMetricKeys[i] # activeMetricKeys[j]
    /\ onlyWithMetric /\ Len(view.chartMetricKeys) > 0 =>
           /\ Range(view.filteredRows) \subseteq C26_RowsWith(view.chartMetricKeys[1])
           /\ Trim(search) = "" =>
                  Range(view.filteredRows) = C26_RowsWith(view.chartMetricKeys[1])
    /\ ~(onlyWithMetric /\ Len(view.chartMetricKeys) > 0) /\ Trim(search) = "" =>
           Range(view.filteredRows) = DOMAIN rows

\* two metrics are active and the list is filtered by the first of them,
\* which is not the default metric: a row without the default metric stays
C26_Witness ==
    /\ Len(activeMetricKeys) = 2
    /\ activeMetricKeys[2] = view.defaultMetricKey
    /\ onlyWithMetric
    /\ search = ""
    /\ Range(view.filteredRows) = DOMAIN rows
    /\ C26_RowsWith(view.defaultMetricKey) # DOMAIN rows

----------------------------------------------------------------------------
(* Properties: the selected row                                            *)

\* the rows of a dataset whose value at the identifier field, trimmed and in
\* lower case, is the registration number 2024331082
C27_Targets(data, idF) ==
    {i \in DOMAIN data :
        /\ idF # Null
        /\ Get(data[i], idF).t # "undefined"
        /\ ToLowerCase(Trim(CellToString(Get(data[i], idF)))) = "2024331082"}

\* the first of them, or the first row without them
C27_Initial(data, idF) ==
    IF C27_Targets(data, idF) = {} THEN 1
    ELSE CHOOSE i \in C27_Targets(data, idF) : \A j \in C27_Targets(data, idF) : i <= j

\* C27: the load of a dataset with rows selects the first row whose
\* identifier is 2024331082, or the first row without an identifier field or
\* such a row; from then on no row click, search edit, search-result click or
\* metric toggle leaves no row selected, the selected row is a row of the
\* dataset, and a search-result click selects one of the filtered rows and
\* empties the search text.
C27_SelectionLifecycle ==
    [][/\ loading /\ ~loading' /\ Len(rows') > 0 =>
              selectedRow' = C27_Initial(rows', view'.idField)
       /\ selectedRow # 0 => selectedRow' # 0
       /\ ~loading' /\ Len(rows') > 0 => selectedRow' \in DOMAIN rows'
       /\ Len(rows') = 0 => selectedRow' = 0
       /\ (\E n \in 1..SearchResultLimit : SearchResultClick(n)) =>
              /\ search' = ""
              /\ selectedRow' \in Range(view.filteredRows)]_vars

\* the second row has the registration number and was selected by the load;
\* now the third row is selected and the search text is empty
C27_Witness ==
    /\ C27_Targets(rows, view.idField) = {2}
    /\ selectedRow = 3
    /\ search = ""
    /\ activeMetricKeys # <<>>

====
